---- MODULE Spec2Model ----
(***************************************************************************)
(* A model of invenio-i18n's translation utilities: the PO -> i18next      *)
(* converter, the JavaScript translation collector, the layered merge      *)
(* (package -> bundle -> instance) with provenance tracking, the           *)
(* distribution of the merged locale files to the packages, the discovery  *)
(* of PO files, update_po_file with the commands build-translations and    *)
(* update-translation, and the PO validator with its summary.              *)
(*                                                                         *)
(* Python strings are modelled as sequences of one-character strings, so   *)
(* that concatenation, strip() and replace() are computed and not assumed. *)
(* Python dicts are modelled as functions whose DOMAIN is the key set.     *)
(***************************************************************************)
EXTENDS Integers, Sequences, FiniteSets, TLC

VARIABLES
    pc,                         \* position of the run inside the handler being modelled
    translations_by_language,   \* locale -> package -> key -> value
    translation_sources,        \* locale -> package -> key -> list of layer tags
    package_layer,              \* what the collector returned (snapshot taken by the build command)
    bundle_translations,        \* result of collect_bundle_js_translations
    instance_translations,      \* result of collect_instance_js_translations
    pending,                    \* locales the running merge loop has still to visit
    n_collected,                \* number of collector iterations done
    last_call,                  \* the library call made by the last step
    output_files,               \* locale -> document written by write_js_translation_outputs
    po_file,                    \* converter / validator input: list of entries
    package_name,               \* converter / validator input: package name
    pos,                        \* number of entries the converter loop has consumed
    result,                     \* the converter's result dict
    prev_result,                \* the result dict before the last converter iteration
    report,                     \* the validator's ValidationReport
    packages,                   \* package names given to validate_translations so far
    reports,                    \* reports gathered for calculate_validation_summary
    summary,                    \* the ValidationSummary
    json_directory,             \* locale -> <locale>.json file of the directory written by the build and read by the distribution
    entrypoints,                \* the entry points of the group invenio_assets.webpack: list of [name, path]
    exceptional_package_names,  \* config I18N_JS_DISTR_EXCEPTIONAL_PACKAGE_MAP
    target_fs,                  \* target translations.json path -> content
    results,                    \* the report of distribute_js_translations_from_directory
    collect_log,                \* what the running collector has visited: (package, locale, file) triples and skipped packages
    package_tree,               \* the translation files of an installed package: path -> PO file
    argv,                       \* the command line of an i18n command
    po_disk,                    \* the PO file at the path update_po_file is given
    io_log,                     \* the file-system operations a command has made
    outcome                     \* what a command returned and reported

vars == <<pc, translations_by_language, translation_sources, package_layer,
          bundle_translations, instance_translations, pending, n_collected,
          last_call, output_files, po_file, package_name, pos, result, prev_result,
          report, packages, reports, summary,
          json_directory, entrypoints, exceptional_package_names, target_fs, results,
          collect_log, package_tree, argv, po_disk, io_log, outcome>>

mergeVars == <<translations_by_language, translation_sources, package_layer,
               bundle_translations, instance_translations, pending,
               n_collected, last_call, output_files>>
convVars == <<po_file, package_name, pos, result, prev_result>>
validVars == <<report, packages, reports, summary>>
distVars == <<json_directory, entrypoints, exceptional_package_names, target_fs, results>>
cliVars == <<argv, po_disk, io_log, outcome>>
otherVars == <<package_tree, cliVars>>
extraVars == <<distVars, collect_log, otherVars>>

(***************************************************************************)
(* Bounds                                                                  *)
(***************************************************************************)
MaxCollect == 2      \* (package, locale, file) triples the collector visits in one run
MaxCalls == 3        \* library calls in a free call sequence
MaxEntries == 2      \* entries of a PO file given to the converter / validator
MaxReports == 3      \* reports given to calculate_validation_summary

(***************************************************************************)
(* Python dict and string helpers                                          *)
(***************************************************************************)
EmptyDict == <<>>

Put(d, k, v) == [x \in (DOMAIN d) \cup {k} |-> IF x = k THEN v ELSE d[x]]

\* dict.setdefault(k, v), returning the dict
SetDefault(d, k, v) == IF k \in DOMAIN d THEN d ELSE Put(d, k, v)

\* d.get(k) or default
GetOr(d, k, default) ==
    IF k \in DOMAIN d /\ d[k] # <<>> THEN d[k] ELSE default

\* x or default, for strings
StrOr(x, default) == IF x # <<>> THEN x ELSE default

IsSpace(c) == c \in {" ", "\n", "\t"}

RECURSIVE lstrip(_)
lstrip(s) == IF s # <<>> /\ IsSpace(Head(s)) THEN lstrip(Tail(s)) ELSE s

RECURSIVE rstrip(_)
rstrip(s) ==
    IF s # <<>> /\ IsSpace(s[Len(s)]) THEN rstrip(SubSeq(s, 1, Len(s) - 1)) ELSE s

strip(s) == rstrip(lstrip(s))

IsPrefix(s, t) == Len(s) <= Len(t) /\ SubSeq(t, 1, Len(s)) = s

NoDuplicates(s) == \A i, j \in 1..Len(s) : s[i] = s[j] => i = j

Contains(s, x) == \E i \in 1..Len(s) : s[i] = x

IndexOf(s, x) == CHOOSE i \in 1..Len(s) : s[i] = x /\ \A j \in 1..(i - 1) : s[j] # x

(***************************************************************************)
(* discovery.py                                                            *)
(***************************************************************************)
package_name_to_module_name(name) ==
    [i \in 1..Len(name) |-> IF name[i] = "-" THEN "_" ELSE name[i]]

(***************************************************************************)
(* convert.py: po_to_i18next_json                                          *)
(* A PO entry is [msgid, msgstr, msgstr_plural, obsolete, flags];          *)
(* msgstr_plural is a dict index -> form (empty for a non-plural entry).   *)
(***************************************************************************)
Colon == <<":">>
PluralSuffix == <<"_", "p", "l", "u", "r", "a", "l">>

BaseKey(normalized_package, msgid) == normalized_package \o Colon \o msgid
PluralKey(normalized_package, msgid) ==
    normalized_package \o Colon \o msgid \o PluralSuffix

\* Whether the loop body of po_to_i18next_json keeps the entry
Retained(entry) == ~entry.obsolete /\ entry.msgid # <<>>

HasPlural(entry) == DOMAIN entry.msgstr_plural # {}

ConvertEntry_swapped(res, entry, normalized_package) ==
    IF entry.obsolete THEN res
    ELSE IF entry.msgid = <<>> THEN res
    ELSE IF HasPlural(entry)
    THEN Put(Put(res,
                 BaseKey(normalized_package, entry.msgid),
                 strip(GetOr(entry.msgstr_plural, 1, entry.msgid))),
             PluralKey(normalized_package, entry.msgid),
             strip(GetOr(entry.msgstr_plural, 0, entry.msgid)))
    ELSE Put(res, BaseKey(normalized_package, entry.msgid),
             strip(StrOr(entry.msgstr, entry.msgid)))

ConvertEntry_unnamespaced(res, entry, normalized_package) ==
    IF entry.obsolete THEN res
    ELSE IF entry.msgid = <<>> THEN res
    ELSE IF HasPlural(entry)
    THEN Put(Put(res, entry.msgid,
                 strip(GetOr(entry.msgstr_plural, 0, entry.msgid))),
             entry.msgid \o PluralSuffix,
             strip(GetOr(entry.msgstr_plural, 1, entry.msgid)))
    ELSE Put(res, entry.msgid, strip(StrOr(entry.msgstr, entry.msgid)))

ConvertEntry_keeps_obsolete(res, entry, normalized_package) ==
    IF entry.msgid = <<>> THEN res
    ELSE IF HasPlural(entry)
    THEN Put(Put(res,
                 BaseKey(normalized_package, entry.msgid),
                 strip(GetOr(entry.msgstr_plural, 0, entry.msgid))),
             PluralKey(normalized_package, entry.msgid),
             strip(GetOr(entry.msgstr_plural, 1, entry.msgid)))
    ELSE Put(res, BaseKey(normalized_package, entry.msgid),
             strip(StrOr(entry.msgstr, entry.msgid)))

\* One iteration of "for entry in po_file" (convert.py lines 30-48)
ConvertEntry(res, entry, normalized_package) ==
    IF entry.obsolete THEN res
    ELSE IF entry.msgid = <<>> THEN res
    ELSE IF HasPlural(entry)
    THEN Put(Put(res,
                 BaseKey(normalized_package, entry.msgid),
                 strip(GetOr(entry.msgstr_plural, 0, entry.msgid))),
             PluralKey(normalized_package, entry.msgid),
             strip(GetOr(entry.msgstr_plural, 1, entry.msgid)))
    ELSE Put(res, BaseKey(normalized_package, entry.msgid),
             strip(StrOr(entry.msgstr, entry.msgid)))

RECURSIVE ConvertFrom(_, _, _, _)
ConvertFrom(res, entries, i, normalized_package) ==
    IF i > Len(entries) THEN res
    ELSE ConvertFrom(ConvertEntry(res, entries[i], normalized_package),
                     entries, i + 1, normalized_package)

po_to_i18next_json(entries, name) ==
    ConvertFrom(EmptyDict, entries, 1, package_name_to_module_name(name))

(***************************************************************************)
(* utils.py: the JavaScript translation collector                          *)
(* A PO file on disk is [readable, entries]; polib.pofile raises on an     *)
(* unreadable or malformed file.                                           *)
(***************************************************************************)
\* A failing file discards what the locale has collected so far
add_package_locale_translations_failure_clears(name, locale, file, tbl, ts) ==
    LET tbl0 == SetDefault(tbl, locale, EmptyDict)
        ts0 == SetDefault(ts, locale, EmptyDict)
    IN  IF ~file.readable
        THEN [tbl |-> Put(tbl, locale, EmptyDict), ts |-> Put(ts, locale, EmptyDict)]
        ELSE
          LET module_name == package_name_to_module_name(name)
              package_translations == po_to_i18next_json(file.entries, name)
              src0 == SetDefault(ts0[locale], module_name, EmptyDict)
              old == src0[module_name]
              is_first_processing == module_name \notin DOMAIN tbl0[locale]
              tagged == [k \in (DOMAIN old) \cup (DOMAIN package_translations) |->
                           IF k \in DOMAIN package_translations
                           THEN Append(IF k \in DOMAIN old THEN old[k] ELSE <<>>,
                                       "package")
                           ELSE old[k]]
          IN  [tbl |-> Put(tbl0, locale,
                           Put(tbl0[locale], module_name, package_translations)),
               ts |-> Put(ts0, locale,
                          Put(src0, module_name,
                              IF is_first_processing THEN tagged ELSE old))]

\* _add_package_locale_translations (utils.py lines 247-277)
add_package_locale_translations(name, locale, file, tbl, ts) ==
    LET tbl0 == SetDefault(tbl, locale, EmptyDict)
        ts0 == SetDefault(ts, locale, EmptyDict)
    IN  IF ~file.readable
        THEN [tbl |-> tbl0, ts |-> ts0]
        ELSE
          LET module_name == package_name_to_module_name(name)
              package_translations == po_to_i18next_json(file.entries, name)
              src0 == SetDefault(ts0[locale], module_name, EmptyDict)
              old == src0[module_name]
              is_first_processing == module_name \notin DOMAIN tbl0[locale]
              tagged == [k \in (DOMAIN old) \cup (DOMAIN package_translations) |->
                           IF k \in DOMAIN package_translations
                           THEN Append(IF k \in DOMAIN old THEN old[k] ELSE <<>>,
                                       "package")
                           ELSE old[k]]
          IN  [tbl |-> Put(tbl0, locale,
                           Put(tbl0[locale], module_name, package_translations)),
               ts |-> Put(ts0, locale,
                          Put(src0, module_name,
                              IF is_first_processing THEN tagged ELSE old))]

(***************************************************************************)
(* utils.py: merge_js_translations                                         *)
(***************************************************************************)
MergeKey_append_always(tp, mp, key, value, source_type) ==
    LET l0 == IF key \in DOMAIN mp THEN mp[key] ELSE <<>>
    IN  [t |-> Put(tp, key, value), m |-> Put(mp, key, Append(l0, source_type))]

MergeKey_keep_first(tp, mp, key, value, source_type) ==
    LET l0 == IF key \in DOMAIN mp THEN mp[key] ELSE <<>>
        l1 == IF ~Contains(l0, source_type) THEN Append(l0, source_type) ELSE l0
    IN  [t |-> IF key \in DOMAIN tp THEN tp ELSE Put(tp, key, value),
         m |-> Put(mp, key, l1)]

MergeKey_replace_sources(tp, mp, key, value, source_type) ==
    [t |-> Put(tp, key, value), m |-> Put(mp, key, <<source_type>>)]

\* The tag is appended unless it is the last one of the list
MergeKey_append_unless_last(tp, mp, key, value, source_type) ==
    LET l0 == IF key \in DOMAIN mp THEN mp[key] ELSE <<>>
        l1 == IF l0 = <<>> \/ l0[Len(l0)] # source_type
              THEN Append(l0, source_type) ELSE l0
    IN  [t |-> Put(tp, key, value), m |-> Put(mp, key, l1)]

\* The body of "for key, value in package_translations.items()" with
\* provenance tracking (utils.py lines 294-303)
MergeKey(tp, mp, key, value, source_type) ==
    LET l0 == IF key \in DOMAIN mp THEN mp[key] ELSE <<>>
        l1 == IF ~Contains(l0, source_type) THEN Append(l0, source_type) ELSE l0
    IN  [t |-> IF key \in DOMAIN tp /\ tp[key] = value THEN tp
               ELSE Put(tp, key, value),
         m |-> Put(mp, key, l1)]

RECURSIVE MergeKeys(_, _, _, _, _)
MergeKeys(tp, mp, package_translations, keys, source_type) ==
    IF keys = {} THEN [t |-> tp, m |-> mp]
    ELSE LET key == CHOOSE k \in keys : TRUE
             r == MergeKey(tp, mp, key, package_translations[key], source_type)
         IN  MergeKeys(r.t, r.m, package_translations, keys \ {key}, source_type)

RECURSIVE MergePackages(_, _, _, _, _)
MergePackages(target, source, sources_metadata, names, source_type) ==
    IF names = {} THEN [target |-> target, sources |-> sources_metadata]
    ELSE LET name == CHOOSE p \in names : TRUE
             target0 == SetDefault(target, name, EmptyDict)
             meta0 == SetDefault(sources_metadata, name, EmptyDict)
             r == MergeKeys(target0[name], meta0[name], source[name],
                            DOMAIN source[name], source_type)
         IN  MergePackages(Put(target0, name, r.t), source,
                           Put(meta0, name, r.m), names \ {name}, source_type)

\* merge_js_translations with sources_metadata given (utils.py lines 280-303)
merge_js_translations(target, source, sources_metadata, source_type) ==
    MergePackages(target, source, sources_metadata, DOMAIN source, source_type)

\* merge_js_translations with sources_metadata None: target[p].update(source[p])
\* (utils.py lines 287-289, 304-305)
merge_js_translations_untracked(target, source) ==
    [p \in (DOMAIN target) \cup (DOMAIN source) |->
        IF p \notin DOMAIN source THEN target[p]
        ELSE LET tp == IF p \in DOMAIN target THEN target[p] ELSE EmptyDict
             IN  [k \in (DOMAIN tp) \cup (DOMAIN source[p]) |->
                     IF k \in DOMAIN source[p] THEN source[p][k] ELSE tp[k]]]

(***************************************************************************)
(* utils.py: loading the bundle and the instance layer                     *)
(* A locale JSON file is [locale, valid, content]; _load_locale_json       *)
(* returns the content of a valid file and None otherwise. A bundle file   *)
(* also has nonmapping, the packages whose JSON value is not an object (a  *)
(* number, say): content holds the other packages.                         *)
(***************************************************************************)
\* merge_js_translations without tracking raises TypeError in
\* target[package_name].update(package_translations) when a package's value
\* is not a mapping (utils.py line 305); nothing catches it
collect_bundle_raises(files) ==
    \E i \in 1..Len(files) : files[i].valid /\ files[i].nonmapping # {}

RECURSIVE BundleFrom(_, _, _)
BundleFrom(tbl, files, i) ==
    IF i > Len(files) THEN tbl
    ELSE IF ~files[i].valid THEN BundleFrom(tbl, files, i + 1)
    ELSE LET locale == files[i].locale
             tbl0 == SetDefault(tbl, locale, EmptyDict)
         IN  BundleFrom(Put(tbl0, locale,
                            merge_js_translations_untracked(tbl0[locale],
                                                            files[i].content)),
                        files, i + 1)

\* collect_bundle_js_translations (utils.py lines 308-323); files is the
\* sequence of JSON files the bundle directories hold, in glob order
collect_bundle_js_translations(files) == BundleFrom(EmptyDict, files, 1)

\* collect_instance_js_translations (utils.py lines 326-346); dir maps each
\* locale that has a <locale>.json file to that file
collect_instance_js_translations(dir) ==
    [l \in {x \in DOMAIN dir : dir[x].valid} |-> dir[l].content]

\* One iteration of the loop of merge_bundle_js_layers / merge_instance_js_layers
\* (utils.py lines 361-369, 389-397)
MergeLayerLocale(tbl, ts, locale, layer_data, source_type) ==
    LET tbl0 == SetDefault(tbl, locale, EmptyDict)
        ts0 == SetDefault(ts, locale, EmptyDict)
        r == merge_js_translations(tbl0[locale], layer_data, ts0[locale], source_type)
    IN  [tbl |-> Put(tbl0, locale, r.target), ts |-> Put(ts0, locale, r.sources)]

(***************************************************************************)
(* utils.py: write_js_translation_outputs and _add_metadata_block          *)
(***************************************************************************)
TranslationSourcesKey ==
    <<"_", "t", "r", "a", "n", "s", "l", "a", "t", "i", "o", "n",
      "_", "s", "o", "u", "r", "c", "e", "s">>
DescriptionKey == <<"_", "d", "e", "s", "c", "r", "i", "p", "t", "i", "o", "n">>
DescriptionText == <<"T", "r", "a", "n", "s", "l", "a", "t", "i", "o", "n", " ",
                     "s", "o", "u", "r", "c", "e", " ", "t", "r", "a", "c", "k",
                     "i", "n", "g", " ", "m", "e", "t", "a", "d", "a", "t", "a">>

\* The block is attached for every locale translation_sources knows
add_metadata_block_any_locale(locale, translations, ts) ==
    IF locale \in DOMAIN ts
    THEN Put(translations, TranslationSourcesKey,
             [k \in {DescriptionKey} \cup DOMAIN ts[locale] |->
                 IF k \in DOMAIN ts[locale] THEN ts[locale][k] ELSE DescriptionText])
    ELSE translations

\* _add_metadata_block (utils.py lines 445-474)
add_metadata_block(locale, translations, ts) ==
    IF locale \in DOMAIN ts /\ ts[locale] # EmptyDict
    THEN Put(translations, TranslationSourcesKey,
             [k \in {DescriptionKey} \cup DOMAIN ts[locale] |->
                 IF k \in DOMAIN ts[locale] THEN ts[locale][k] ELSE DescriptionText])
    ELSE translations

\* write_js_translation_outputs (utils.py lines 402-424): one document per locale
write_js_translation_outputs(tbl, ts) ==
    [l \in DOMAIN tbl |-> add_metadata_block(l, tbl[l], ts)]

(***************************************************************************)
(* utils.py: distributing the locale files to the packages' asset trees    *)
(* A target file <path>/translations/<name>/messages/<language>/           *)
(* translations.json is the record of its three variable path components.  *)
(***************************************************************************)
None == [none |-> TRUE]

TargetFile(package_path, name, language) ==
    [path |-> package_path, name |-> name, language |-> language]

\* source_translation_files (utils.py lines 74-89): the stems of the .json
\* files of the directory that hold decodable JSON
source_translation_files(dir) == {l \in DOMAIN dir : dir[l].valid}

\* calculate_target_packages (utils.py lines 92-116); eps is the list of entry
\* points, a later entry point of the same (mapped) name replaces an earlier one
RECURSIVE calculate_target_packages(_, _, _)
calculate_target_packages(exceptional, eps, language) ==
    IF eps = <<>> THEN EmptyDict
    ELSE LET entry_point == eps[Len(eps)]
             name == IF entry_point.name \in DOMAIN exceptional
                     THEN exceptional[entry_point.name] ELSE entry_point.name
             before == calculate_target_packages(exceptional,
                                                 SubSeq(eps, 1, Len(eps) - 1), language)
         IN  Put(before, name, TargetFile(entry_point.path, name, language))

DistRecord(name, language, target_file, skipped) ==
    [package |-> name, language |-> language, target_file |-> target_file,
     skipped |-> skipped]

\* The unregistered package ends the inner loop's work for it without a record
DistributePackage_drops_unregistered(st, language, name, translations, target_packages) ==
    IF IsPrefix(<<"_">>, name) \/ name \notin DOMAIN target_packages THEN st
    ELSE [fs |-> Put(st.fs, target_packages[name], translations),
          results |-> Append(st.results,
                             DistRecord(name, language, target_packages[name], FALSE))]

\* The metadata test is missing
DistributePackage_no_metadata_test(st, language, name, translations, target_packages) ==
    IF name \notin DOMAIN target_packages
    THEN [fs |-> st.fs,
          results |-> Append(st.results, DistRecord(name, language, None, TRUE))]
    ELSE [fs |-> Put(st.fs, target_packages[name], translations),
          results |-> Append(st.results,
                             DistRecord(name, language, target_packages[name], FALSE))]

\* The target file is updated and not overwritten
DistributePackage_updates_file(st, language, name, translations, target_packages) ==
    IF IsPrefix(<<"_">>, name) THEN st
    ELSE IF name \notin DOMAIN target_packages
    THEN [fs |-> st.fs,
          results |-> Append(st.results, DistRecord(name, language, None, TRUE))]
    ELSE LET target_file == target_packages[name]
             prior == IF target_file \in DOMAIN st.fs THEN st.fs[target_file]
                      ELSE EmptyDict
         IN  [fs |-> Put(st.fs, target_file,
                         [k \in DOMAIN prior \cup DOMAIN translations |->
                             IF k \in DOMAIN translations THEN translations[k]
                             ELSE prior[k]]),
              results |-> Append(st.results,
                                 DistRecord(name, language, target_file, FALSE))]

\* The body of the inner loop of distribute_js_translations_from_directory
\* (utils.py lines 199-214); st is [fs, results]
DistributePackage(st, language, name, translations, target_packages) ==
    IF IsPrefix(<<"_">>, name) THEN st
    ELSE IF name \notin DOMAIN target_packages
    THEN [fs |-> st.fs,
          results |-> Append(st.results, DistRecord(name, language, None, TRUE))]
    ELSE LET target_file == target_packages[name]
         IN  [fs |-> Put(st.fs, target_file, translations),
              results |-> Append(st.results,
                                 DistRecord(name, language, target_file, FALSE))]

\* The inner loop over unified_translations.items(); the order in which a dict
\* yields its keys is fixed by the file and is not known to the model, the
\* packages are taken in one arbitrary order
RECURSIVE DistributePackages(_, _, _, _, _)
DistributePackages(st, language, unified_translations, names, target_packages) ==
    IF names = {} THEN st
    ELSE LET name == CHOOSE n \in names : TRUE
         IN  DistributePackages(
                 DistributePackage(st, language, name, unified_translations[name],
                                   target_packages),
                 language, unified_translations, names \ {name}, target_packages)

\* One iteration of the outer loop (utils.py lines 194-214)
DistributeLanguage(st, dir, language, exceptional, eps) ==
    DistributePackages(st, language, dir[language].content,
                       DOMAIN dir[language].content,
                       calculate_target_packages(exceptional, eps, language))

\* distribute_js_translations_from_directory (utils.py lines 177-216), the outer
\* loop over the languages in one arbitrary directory order
RECURSIVE DistributeLanguages(_, _, _, _, _)
DistributeLanguages(st, dir, languages, exceptional, eps) ==
    IF languages = {} THEN st
    ELSE LET language == CHOOSE l \in languages : TRUE
         IN  DistributeLanguages(DistributeLanguage(st, dir, language, exceptional, eps),
                                 dir, languages \ {language}, exceptional, eps)

distribute_js_translations_from_directory(dir, exceptional, eps, fs) ==
    DistributeLanguages([fs |-> fs, results |-> <<>>], dir,
                        source_translation_files(dir), exceptional, eps)

(***************************************************************************)
(* Inputs of the build pipeline                                            *)
(***************************************************************************)
Locales == {"de", "en"}

PkgA == <<"p", "-", "a">>       \* distribution name; its module name is p_a
PkgQ == <<"q">>
ModA == <<"p", "_", "a">>
PackageNames == {PkgA, PkgQ}

Entry(msgid, msgstr) ==
    [msgid |-> msgid, msgstr |-> msgstr, msgstr_plural |-> EmptyDict,
     obsolete |-> FALSE, flags |-> {}]

PluralEntry(msgid, forms) ==
    [msgid |-> msgid, msgstr |-> <<>>, msgstr_plural |-> forms,
     obsolete |-> FALSE, flags |-> {}]

Forms2(singular, plural) == [i \in {0, 1} |-> IF i = 0 THEN singular ELSE plural]

PoA == [readable |-> TRUE, entries |-> <<Entry(<<"X">>, <<"a">>)>>]
PoB == [readable |-> TRUE,
        entries |-> <<PluralEntry(<<"X">>, Forms2(<<"b">>, <<"c">>)),
                      Entry(<<"Y">>, <<>>)>>]
PoBad == [readable |-> FALSE, entries |-> <<>>]
\* A catalog that holds the header only: it converts to an empty key map
PoNone == [readable |-> TRUE, entries |-> <<>>]
PoFiles == {PoA, PoB, PoBad, PoNone}

\* Contents of bundle and instance locale JSON files: package -> key -> value
JsonA == (ModA :> (BaseKey(ModA, <<"X">>) :> <<"d">>))
JsonB == (ModA :> (<<"X">> :> <<"d">>)) @@
         (PkgQ :> (BaseKey(PkgQ, <<"Y">>) :> <<"a">>))
JsonC == (ModA :> ((BaseKey(ModA, <<"X">>) :> <<"e">>) @@
                   (BaseKey(ModA, <<"Y">>) :> <<"f">>)))
JsonD == (ModA :> ((BaseKey(ModA, <<"X">>) :> <<"a">>) @@
                   (BaseKey(ModA, <<"Z">>) :> <<"a">>)))

BundleFiles ==
    {[locale |-> l, valid |-> TRUE, content |-> c, nonmapping |-> {}] :
        l \in Locales, c \in {JsonA, JsonB}}
    \cup {[locale |-> l, valid |-> FALSE, content |-> EmptyDict, nonmapping |-> {}] :
             l \in Locales}
    \cup {[locale |-> l, valid |-> TRUE, content |-> JsonA, nonmapping |-> {PkgQ}] :
             l \in Locales}

MaxBundleFiles == 2
BundleFileLists ==
    UNION {[1..n -> BundleFiles] : n \in 0..MaxBundleFiles}

InstanceFiles ==
    {[valid |-> TRUE, content |-> c] : c \in {JsonC, JsonD}}
    \cup {[valid |-> FALSE, content |-> EmptyDict]}

\* The instance directory: absent, or one <locale>.json file per locale present
InstanceDirs == UNION {[ls -> InstanceFiles] : ls \in SUBSET Locales}

\* What earlier distributions left in the packages' asset trees
PriorFs ==
    (TargetFile("site_a", ModA, "de") :> (<<"o", "l", "d">> :> <<"o">>)) @@
    (TargetFile("site_x", PkgQ, "de") :> (<<"o", "l", "d">> :> <<"o">>))

\* What an earlier build left in the output directory: nothing, or the file of
\* a locale that no package, bundle or instance file of this run has
StaleDirs ==
    {EmptyDict, ("fr" :> [valid |-> TRUE, content |-> JsonA])}

\* The entry points of the installation the build runs in
BuildEntryPoints == <<[name |-> ModA, path |-> "site_a"]>>

NoCall == [op |-> "none"]

\* The record of a merge_js_translations call; repeat tells whether the call
\* before it was the same call
MergeCall(locale, source, source_type) ==
    LET call(r) == [op |-> "merge", locale |-> locale, source |-> source,
                    source_type |-> source_type, repeat |-> r]
    IN  call(last_call = call(FALSE) \/ last_call = call(TRUE))

(***************************************************************************)
(* cli.py: build_js_translations, one step per loop iteration              *)
(***************************************************************************)
InitIdle ==
    /\ translations_by_language = EmptyDict
    /\ translation_sources = EmptyDict
    /\ package_layer = EmptyDict
    /\ bundle_translations = EmptyDict
    /\ instance_translations = EmptyDict
    /\ pending = {}
    /\ n_collected = 0
    /\ last_call = NoCall
    /\ output_files = EmptyDict
    /\ po_file = <<>>
    /\ package_name = <<>>
    /\ pos = 0
    /\ result = EmptyDict
    /\ prev_result = EmptyDict
    /\ report = EmptyDict
    /\ packages = <<>>
    /\ reports = <<>>
    /\ summary = EmptyDict

\* No distribution in progress: nothing registered, nothing on disk
InitNoDistribution ==
    /\ json_directory = EmptyDict
    /\ entrypoints = <<>>
    /\ exceptional_package_names = EmptyDict
    /\ target_fs = EmptyDict
    /\ results = <<>>

InitOther ==
    /\ package_tree = EmptyDict
    /\ argv = EmptyDict
    /\ po_disk = <<>>
    /\ io_log = <<>>
    /\ outcome = EmptyDict

InitExtra == InitNoDistribution /\ collect_log = <<>> /\ InitOther

Init ==
    /\ pc = "collect"
    /\ InitIdle
    /\ json_directory \in StaleDirs
    /\ entrypoints = BuildEntryPoints
    /\ exceptional_package_names = EmptyDict
    /\ target_fs = PriorFs
    /\ results = <<>>
    /\ collect_log = <<>>
    /\ InitOther

\* collect_js_package_translations, one (package, locale, file) of the loops
CollectFile ==
    /\ pc = "collect"
    /\ n_collected < MaxCollect
    /\ \E name \in PackageNames, locale \in Locales, file \in PoFiles :
         LET r == add_package_locale_translations(name, locale, file,
                      translations_by_language, translation_sources)
         IN  /\ translations_by_language' = r.tbl
             /\ translation_sources' = r.ts
             /\ last_call' = [op |-> "collect", name |-> name, locale |-> locale,
                              file |-> file]
             /\ collect_log' = Append(collect_log,
                                      [skip |-> FALSE, name |-> name, locale |-> locale,
                                       file |-> file])
    /\ n_collected' = n_collected + 1
    /\ UNCHANGED <<pc, package_layer, bundle_translations, instance_translations,
                   pending, output_files>>
    /\ UNCHANGED <<convVars, validVars, distVars, otherVars>>

\* find_package_path returned None: the package is skipped
SkipPackage ==
    /\ pc = "collect"
    /\ n_collected < MaxCollect
    /\ \E name \in PackageNames :
         /\ last_call' = [op |-> "skip", name |-> name]
         /\ collect_log' = Append(collect_log, [skip |-> TRUE, name |-> name])
    /\ n_collected' = n_collected + 1
    /\ UNCHANGED <<pc, translations_by_language, translation_sources, package_layer,
                   bundle_translations, instance_translations, pending, output_files>>
    /\ UNCHANGED <<convVars, validVars, distVars, otherVars>>

\* collect_js_package_translations returns; merge_bundle_js_layers loads the bundles
\* When loading a bundle file raises, the exception leaves the command
LoadBundles ==
    /\ pc \in {"collect", "collected"}
    /\ package_layer' = translations_by_language
    /\ \E files \in BundleFileLists :
         IF collect_bundle_raises(files)
         THEN /\ pc' = "crashed"
              /\ last_call' = [op |-> "load_bundles", raised |-> files]
              /\ UNCHANGED <<bundle_translations, pending>>
         ELSE /\ bundle_translations' = collect_bundle_js_translations(files)
              /\ pending' = DOMAIN bundle_translations'
              /\ pc' = "bundle"
              /\ last_call' = [op |-> "load_bundles"]
    /\ UNCHANGED <<translations_by_language, translation_sources,
                   instance_translations, n_collected, output_files>>
    /\ collect_log' = <<>>
    /\ UNCHANGED <<convVars, validVars, distVars, otherVars>>

MergeBundleLocale ==
    /\ pc = "bundle"
    /\ \E locale \in pending :
         LET r == MergeLayerLocale(translations_by_language, translation_sources,
                                   locale, bundle_translations[locale], "bundle")
         IN  /\ translations_by_language' = r.tbl
             /\ translation_sources' = r.ts
             /\ pending' = pending \ {locale}
             /\ last_call' = MergeCall(locale, bundle_translations[locale], "bundle")
    /\ UNCHANGED <<pc, package_layer, bundle_translations, instance_translations,
                   n_collected, output_files>>
    /\ UNCHANGED <<convVars, validVars, extraVars>>

\* merge_bundle_js_layers returns; merge_instance_js_layers loads the instance layer
LoadInstance ==
    /\ pc = "bundle"
    /\ pending = {}
    /\ \E dir \in InstanceDirs :
         instance_translations' = collect_instance_js_translations(dir)
    /\ pending' = DOMAIN instance_translations'
    /\ pc' = "instance"
    /\ last_call' = [op |-> "load_instance"]
    /\ UNCHANGED <<translations_by_language, translation_sources, package_layer,
                   bundle_translations, n_collected, output_files>>
    /\ UNCHANGED <<convVars, validVars, extraVars>>

MergeInstanceLocale ==
    /\ pc = "instance"
    /\ \E locale \in pending :
         LET r == MergeLayerLocale(translations_by_language, translation_sources,
                                   locale, instance_translations[locale], "instance")
         IN  /\ translations_by_language' = r.tbl
             /\ translation_sources' = r.ts
             /\ pending' = pending \ {locale}
             /\ last_call' = MergeCall(locale, instance_translations[locale],
                                        "instance")
    /\ UNCHANGED <<pc, package_layer, bundle_translations, instance_translations,
                   n_collected, output_files>>
    /\ UNCHANGED <<convVars, validVars, extraVars>>

\* "if not translations_by_language: return", else write_js_translation_outputs
WriteOutputs ==
    /\ pc = "instance"
    /\ pending = {}
    /\ output_files' = IF translations_by_language = EmptyDict THEN EmptyDict
                       ELSE write_js_translation_outputs(translations_by_language,
                                                         translation_sources)
    /\ json_directory' =
         [l \in DOMAIN json_directory \cup DOMAIN output_files' |->
             IF l \in DOMAIN output_files'
             THEN [valid |-> TRUE, content |-> output_files'[l]]
             ELSE json_directory[l]]
    /\ pc' = "merged"
    /\ last_call' = [op |-> "write"]
    /\ UNCHANGED <<translations_by_language, translation_sources, package_layer,
                   bundle_translations, instance_translations, pending, n_collected>>
    /\ UNCHANGED <<entrypoints, exceptional_package_names, target_fs, results,
                   collect_log>>
    /\ UNCHANGED <<convVars, validVars, otherVars>>

\* distribute_js_translations_from_directory(output_directory), which the
\* command reaches only when translations_by_language is not empty
Distribute ==
    /\ pc = "merged"
    /\ translations_by_language # EmptyDict
    /\ LET st == distribute_js_translations_from_directory(
                     json_directory, exceptional_package_names, entrypoints, target_fs)
       IN  /\ target_fs' = st.fs
           /\ results' = st.results
    /\ pc' = "done"
    /\ last_call' = [op |-> "distribute"]
    /\ UNCHANGED <<translations_by_language, translation_sources, package_layer,
                   bundle_translations, instance_translations, pending, n_collected,
                   output_files>>
    /\ UNCHANGED <<json_directory, entrypoints, exceptional_package_names, collect_log>>
    /\ UNCHANGED <<convVars, validVars, otherVars>>

Next ==
    \/ CollectFile
    \/ SkipPackage
    \/ LoadBundles
    \/ MergeBundleLocale
    \/ LoadInstance
    \/ MergeInstanceLocale
    \/ WriteOutputs
    \/ Distribute

Spec == Init /\ [][Next]_vars

(***************************************************************************)
(* The library used directly: any sequence of collector iterations and     *)
(* merge_js_translations calls on one pair of maps                         *)
(***************************************************************************)
ApiLocales == {"de"}
ApiLayers == {JsonA, JsonB, JsonC}
SourceTypes == {"package", "bundle", "instance"}

InitApi == pc = "api" /\ InitIdle /\ InitExtra

ApiCollect ==
    /\ pc = "api"
    /\ n_collected < MaxCalls
    /\ \E name \in PackageNames, locale \in ApiLocales, file \in PoFiles :
         LET r == add_package_locale_translations(name, locale, file,
                      translations_by_language, translation_sources)
         IN  /\ translations_by_language' = r.tbl
             /\ translation_sources' = r.ts
             /\ last_call' = [op |-> "collect", name |-> name, locale |-> locale,
                              file |-> file]
    /\ n_collected' = n_collected + 1
    /\ UNCHANGED <<pc, package_layer, bundle_translations, instance_translations,
                   pending, output_files>>
    /\ UNCHANGED <<convVars, validVars, extraVars>>

ApiMerge ==
    /\ pc = "api"
    /\ n_collected < MaxCalls
    /\ \E locale \in ApiLocales, source \in ApiLayers, source_type \in SourceTypes :
         LET r == MergeLayerLocale(translations_by_language, translation_sources,
                                   locale, source, source_type)
         IN  /\ translations_by_language' = r.tbl
             /\ translation_sources' = r.ts
             /\ last_call' = MergeCall(locale, source, source_type)
    /\ n_collected' = n_collected + 1
    /\ UNCHANGED <<pc, package_layer, bundle_translations, instance_translations,
                   pending, output_files>>
    /\ UNCHANGED <<convVars, validVars, extraVars>>

NextApi == ApiCollect \/ ApiMerge

SpecApi == InitApi /\ [][NextApi]_vars

(***************************************************************************)
(* Properties of the layered merge                                         *)
(***************************************************************************)
PkgsOf(d, l) == IF l \in DOMAIN d THEN DOMAIN d[l] ELSE {}
KeysOf(d, l, p) == IF p \in PkgsOf(d, l) THEN DOMAIN d[l][p] ELSE {}
Has(d, l, p, k) == k \in KeysOf(d, l, p)

AllLocales ==
    DOMAIN translations_by_language \cup DOMAIN translation_sources
    \cup DOMAIN package_layer \cup DOMAIN bundle_translations
    \cup DOMAIN instance_translations
AllPkgs(l) ==
    PkgsOf(translations_by_language, l) \cup PkgsOf(translation_sources, l)
    \cup PkgsOf(package_layer, l) \cup PkgsOf(bundle_translations, l)
    \cup PkgsOf(instance_translations, l)
AllKeys(l, p) ==
    KeysOf(translations_by_language, l, p) \cup KeysOf(translation_sources, l, p)
    \cup KeysOf(package_layer, l, p) \cup KeysOf(bundle_translations, l, p)
    \cup KeysOf(instance_translations, l, p)

\* The tags of a key's provenance list (empty when it has none)
SourcesOf(l, p, k) ==
    IF Has(translation_sources, l, p, k) THEN translation_sources[l][p][k] ELSE <<>>

\* C1: after collect, bundle merge and instance merge, every key holds the
\* value of the highest layer that has it (instance > bundle > package), and
\* no key exists that no layer has.
C1_MergePrecedence ==
    pc = "merged" =>
      \A l \in AllLocales : \A p \in AllPkgs(l) : \A k \in AllKeys(l, p) :
        IF Has(instance_translations, l, p, k)
        THEN /\ Has(translations_by_language, l, p, k)
             /\ translations_by_language[l][p][k] = instance_translations[l][p][k]
        ELSE IF Has(bundle_translations, l, p, k)
        THEN /\ Has(translations_by_language, l, p, k)
             /\ translations_by_language[l][p][k] = bundle_translations[l][p][k]
        ELSE IF Has(package_layer, l, p, k)
        THEN /\ Has(translations_by_language, l, p, k)
             /\ translations_by_language[l][p][k] = package_layer[l][p][k]
        ELSE ~Has(translations_by_language, l, p, k)

\* A finished run in which a key of the package layer is overridden by a
\* different instance value while a bundle value lies in between
C1_Witness ==
    /\ pc = "merged"
    /\ \E l \in AllLocales : \E p \in AllPkgs(l) : \E k \in AllKeys(l, p) :
         /\ Has(package_layer, l, p, k)
         /\ Has(bundle_translations, l, p, k)
         /\ Has(instance_translations, l, p, k)
         /\ package_layer[l][p][k] # instance_translations[l][p][k]
         /\ bundle_translations[l][p][k] # instance_translations[l][p][k]

\* C2 (as claimed): after the full pipeline every key present in the package
\* layer and in the instance layer lists "package" before "instance".
C2_PackageBeforeInstance ==
    pc = "merged" =>
      \A l \in AllLocales : \A p \in AllPkgs(l) : \A k \in AllKeys(l, p) :
        (Has(package_layer, l, p, k) /\ Has(instance_translations, l, p, k)) =>
          /\ Contains(SourcesOf(l, p, k), "package")
          /\ Contains(SourcesOf(l, p, k), "instance")
          /\ IndexOf(SourcesOf(l, p, k), "package")
               < IndexOf(SourcesOf(l, p, k), "instance")

\* C3 (as claimed): whenever the collector may return, every collected key has
\* a provenance list containing "package".
C3_CollectedKeysTagged ==
    pc = "collect" =>
      \A l \in DOMAIN translations_by_language :
        \A p \in DOMAIN translations_by_language[l] :
          \A k \in DOMAIN translations_by_language[l][p] :
            Contains(SourcesOf(l, p, k), "package")

\* C4: no provenance list holds a tag twice, and a merge_js_translations call
\* that repeats the call before it changes neither values nor provenance.
C4_NoDuplicateTags ==
    \A l \in DOMAIN translation_sources :
      \A p \in DOMAIN translation_sources[l] :
        \A k \in DOMAIN translation_sources[l][p] :
          NoDuplicates(translation_sources[l][p][k])

C4_IdempotentMerge ==
    /\ []C4_NoDuplicateTags
    /\ [][(last_call'.op = "merge" /\ last_call'.repeat) =>
            /\ translations_by_language' = translations_by_language
            /\ translation_sources' = translation_sources]_vars

\* A layer was merged a second time in a row, on a key that already carried
\* the tag of an earlier layer
C4_Witness ==
    /\ last_call.op = "merge"
    /\ last_call.repeat
    /\ \E l \in DOMAIN translation_sources :
         \E p \in DOMAIN translation_sources[l] :
           \E k \in DOMAIN translation_sources[l][p] :
             /\ p \in DOMAIN last_call.source
             /\ k \in DOMAIN last_call.source[p]
             /\ Len(translation_sources[l][p][k]) >= 2

\* C5: provenance is append-only: every step leaves each provenance list a
\* prefix of its new value, and no key loses its list.
C5_ProvenanceAppendOnly ==
    [][\A l \in DOMAIN translation_sources :
         \A p \in DOMAIN translation_sources[l] :
           \A k \in DOMAIN translation_sources[l][p] :
             /\ Has(translation_sources', l, p, k)
             /\ IsPrefix(translation_sources[l][p][k],
                         translation_sources'[l][p][k])]_vars

\* A key collected from a package whose value the instance layer has replaced
\* and whose list kept the earlier tags
C5_Witness ==
    \E l \in AllLocales : \E p \in AllPkgs(l) : \E k \in AllKeys(l, p) :
      /\ SourcesOf(l, p, k) = <<"package", "bundle", "instance">>
      /\ Has(package_layer, l, p, k)
      /\ translations_by_language[l][p][k] # package_layer[l][p][k]

\* "<package>:<msgid>", with or without the "_plural" suffix
Namespaced(p, k) ==
    /\ Len(k) > Len(p) + 1
    /\ SubSeq(k, 1, Len(p) + 1) = p \o Colon

WrittenPackages(l) == DOMAIN output_files[l] \ {TranslationSourcesKey}

\* C6 (as claimed): every key of every package in every written per-locale
\* mapping is namespaced, whichever layer contributed it.
C6_AllKeysNamespaced ==
    pc = "merged" =>
      \A l \in DOMAIN output_files : \A p \in WrittenPackages(l) :
        \A k \in DOMAIN output_files[l][p] : Namespaced(p, k)

\* C6 (amended): a written key that is not namespaced is a key that a bundle
\* or instance JSON file holds for that package and locale; every key that
\* only the package layer contributes is namespaced.
C6_PackageKeysNamespaced ==
    pc = "merged" =>
      \A l \in DOMAIN output_files : \A p \in WrittenPackages(l) :
        \A k \in DOMAIN output_files[l][p] :
          \/ Namespaced(p, k)
          \/ Has(bundle_translations, l, p, k)
          \/ Has(instance_translations, l, p, k)

\* A written mapping holding a plural key that only a PO file contributed,
\* next to a key of a bundle file
C6_Witness ==
    /\ pc = "merged"
    /\ \E l \in DOMAIN output_files : \E p \in WrittenPackages(l) :
         \E k1, k2 \in DOMAIN output_files[l][p] :
           /\ Has(package_layer, l, p, k1)
           /\ ~Has(bundle_translations, l, p, k1)
           /\ ~Has(instance_translations, l, p, k1)
           /\ k1 = PluralKey(p, <<"X">>)
           /\ Has(bundle_translations, l, p, k2)

(***************************************************************************)
(* The converter on its own: po_to_i18next_json applied to a PO file,      *)
(* one loop iteration per step                                             *)
(***************************************************************************)
XPlural == <<"X">> \o PluralSuffix

ConvEntries ==
    { Entry(<<"X">>, <<"a">>),
      Entry(<<"X">>, <<>>),
      Entry(<<" ", "X">>, <<" ", "a", " ">>),
      Entry(<<"X">>, <<" ">>),
      Entry(XPlural, <<"d">>),
      Entry(<<>>, <<"a">>),
      [Entry(<<"X">>, <<"a">>) EXCEPT !.obsolete = TRUE],
      PluralEntry(<<"X">>, Forms2(<<"b">>, <<"c">>)),
      PluralEntry(<<"X">>, Forms2(<<>>, <<"\n", "c", " ">>)),
      PluralEntry(<<"X">>, (0 :> <<"b">>)),
      [PluralEntry(<<"X">>, Forms2(<<"b">>, <<"c">>)) EXCEPT !.obsolete = TRUE] }

ConvFiles == UNION {[1..n -> ConvEntries] : n \in 0..MaxEntries}

InitConvert ==
    /\ pc = "convert"
    /\ InitExtra
    /\ translations_by_language = EmptyDict
    /\ translation_sources = EmptyDict
    /\ package_layer = EmptyDict
    /\ bundle_translations = EmptyDict
    /\ instance_translations = EmptyDict
    /\ pending = {}
    /\ n_collected = 0
    /\ last_call = NoCall
    /\ output_files = EmptyDict
    /\ po_file \in ConvFiles
    /\ package_name \in PackageNames
    /\ pos = 0
    /\ result = EmptyDict
    /\ prev_result = EmptyDict
    /\ report = EmptyDict
    /\ packages = <<>>
    /\ reports = <<>>
    /\ summary = EmptyDict

\* One iteration of "for entry in po_file"
ConvertStep ==
    /\ pc = "convert"
    /\ pos < Len(po_file)
    /\ result' = ConvertEntry(result, po_file[pos + 1],
                              package_name_to_module_name(package_name))
    /\ prev_result' = result
    /\ pos' = pos + 1
    /\ UNCHANGED <<pc, po_file, package_name>>
    /\ UNCHANGED <<mergeVars, validVars, extraVars>>

\* "return result"
ConvertReturn ==
    /\ pc = "convert"
    /\ pos = Len(po_file)
    /\ pc' = "converted"
    /\ UNCHANGED <<convVars, mergeVars, validVars, extraVars>>

NextConvert == ConvertStep \/ ConvertReturn

SpecConvert == InitConvert /\ [][NextConvert]_vars

\* v is s without its leading and trailing whitespace
IsTrimOf(v, s) ==
    \E i \in 1..(Len(s) + 1) : \E j \in 0..Len(s) :
      /\ v = SubSeq(s, i, j)
      /\ \A n \in 1..(i - 1) : IsSpace(s[n])
      /\ \A n \in (j + 1)..Len(s) : IsSpace(s[n])
      /\ v # <<>> => (~IsSpace(v[1]) /\ ~IsSpace(v[Len(v)]))

\* The form a plural entry supplies at index i: the form, or the msgid when
\* the form is missing or empty
FormOrMsgid(entry, i) ==
    IF i \in DOMAIN entry.msgstr_plural /\ Len(entry.msgstr_plural[i]) > 0
    THEN entry.msgstr_plural[i] ELSE entry.msgid

\* The package name with every "-" replaced by "_"
IsNormalizedName(np, name) ==
    /\ Len(np) = Len(name)
    /\ \A i \in 1..Len(name) : np[i] = (IF name[i] = "-" THEN "_" ELSE name[i])

\* C9: the iteration that handles a non-obsolete entry with a non-empty msgid
\* and non-empty plural forms emits exactly the two keys "<pkg>:<msgid>" and
\* "<pkg>:<msgid>_plural", holding the trimmed singular and plural form (the
\* msgid for an empty form), and touches no other key.
C9_PluralEmitsTwoKeys ==
    [][(pc = "convert" /\ pos' = pos + 1
        /\ Retained(po_file[pos']) /\ HasPlural(po_file[pos'])) =>
         \E np \in [1..Len(package_name) -> {"p", "q", "a", "-", "_"}] :
           LET entry == po_file[pos']
               base == np \o <<":">> \o entry.msgid
               plural == base \o <<"_", "p", "l", "u", "r", "a", "l">>
           IN  /\ IsNormalizedName(np, package_name)
               /\ DOMAIN result' = (DOMAIN result) \cup {base, plural}
               /\ IsTrimOf(result'[base], FormOrMsgid(entry, 0))
               /\ IsTrimOf(result'[plural], FormOrMsgid(entry, 1))
               /\ \A k \in (DOMAIN result) \ {base, plural} :
                    result'[k] = result[k]]_vars

\* The converter has just handled a plural entry of package "p-a" whose
\* singular form is empty and whose plural form has surrounding whitespace
C9_Witness ==
    /\ pc = "convert"
    /\ pos > 0
    /\ package_name = PkgA
    /\ po_file[pos] = PluralEntry(<<"X">>, Forms2(<<>>, <<"\n", "c", " ">>))
    /\ result # prev_result
    /\ result[<<"p", "_", "a", ":", "X">>] = <<"X">>
    /\ result[<<"p", "_", "a", ":", "X", "_", "p", "l", "u", "r", "a", "l">>] = <<"c">>

\* The keys and values an entry stands for in the flat mapping
EntryPairs(entry, np) ==
    IF ~Retained(entry) THEN {}
    ELSE IF HasPlural(entry)
    THEN {<<BaseKey(np, entry.msgid), strip(FormOrMsgid(entry, 0))>>,
          <<PluralKey(np, entry.msgid), strip(FormOrMsgid(entry, 1))>>}
    ELSE {<<BaseKey(np, entry.msgid), strip(StrOr(entry.msgstr, entry.msgid))>>}

\* C10 (as claimed): the flat mapping preserves every retained entry exactly
\* once: every key/value pair of every retained entry is in the result, and
\* no two distinct retained entries share an output key.
C10_RoundTrip ==
    pc = "converted" =>
      LET np == package_name_to_module_name(package_name)
      IN  /\ \A i \in 1..Len(po_file) : \A kv \in EntryPairs(po_file[i], np) :
                kv[1] \in DOMAIN result /\ result[kv[1]] = kv[2]
          /\ \A i, j \in 1..Len(po_file) :
                i # j =>
                  {kv[1] : kv \in EntryPairs(po_file[i], np)}
                  \cap {kv[1] : kv \in EntryPairs(po_file[j], np)} = {}

(***************************************************************************)
(* validate.py: validate_po                                                *)
(***************************************************************************)
\* The branch of the if/elif chain an entry takes (validate.py lines 130-135)
Classify_fuzzy_first(entry) ==
    IF "fuzzy" \in entry.flags THEN "fuzzy"
    ELSE IF entry.obsolete THEN "obsolete"
    ELSE IF entry.msgstr = <<>> /\ ~HasPlural(entry) THEN "untranslated"
    ELSE "translated"

Classify(entry) ==
    IF entry.obsolete THEN "obsolete"
    ELSE IF "fuzzy" \in entry.flags THEN "fuzzy"
    ELSE IF entry.msgstr = <<>> /\ ~HasPlural(entry) THEN "untranslated"
    ELSE "translated"

EmptyIssues == [untranslated |-> <<>>, fuzzy |-> <<>>, obsolete |-> <<>>]

\* One iteration of "for entry in po_file" of validate_po
ValidateEntry(issues, entry) ==
    LET kind == Classify(entry)
    IN  IF kind = "obsolete"
        THEN [issues EXCEPT !.obsolete = Append(@, entry.msgid)]
        ELSE IF kind = "fuzzy"
        THEN [issues EXCEPT !.fuzzy = Append(@, entry.msgid)]
        ELSE IF kind = "untranslated"
        THEN [issues EXCEPT !.untranslated = Append(@, entry.msgid)]
        ELSE issues

RECURSIVE ValidateFrom(_, _, _)
ValidateFrom(issues, entries, i) ==
    IF i > Len(entries) THEN issues
    ELSE ValidateFrom(ValidateEntry(issues, entries[i]), entries, i + 1)

\* Counts.from_issues (validate.py lines 39-46)
CountsFromIssues(issues) ==
    [untranslated |-> Len(issues.untranslated),
     fuzzyTranslations |-> Len(issues.fuzzy),
     obsoleteTranslations |-> Len(issues.obsolete)]

\* Counts.total (validate.py lines 48-51)
CountsTotal(counts) ==
    counts.untranslated + counts.fuzzyTranslations + counts.obsoleteTranslations

\* validate_po (validate.py lines 117-146)
validate_po(entries, name, locale) ==
    LET issues == ValidateFrom(EmptyIssues, entries, 1)
    IN  [package |-> package_name_to_module_name(name),
         locale |-> locale,
         issues |-> issues,
         counts |-> CountsFromIssues(issues)]

(***************************************************************************)
(* validate_po on its own                                                  *)
(***************************************************************************)
Flagged(entry, obsolete, fuzzy) ==
    [entry EXCEPT !.obsolete = obsolete,
                  !.flags = IF fuzzy THEN {"fuzzy"} ELSE {}]

ValidEntries ==
    { Flagged(e, o, f) :
        e \in { Entry(<<"X">>, <<"a">>),
                Entry(<<"X">>, <<>>),
                Entry(<<"Y">>, <<>>),
                [PluralEntry(<<"Z">>, Forms2(<<>>, <<>>)) EXCEPT !.msgstr = <<>>] },
        o \in BOOLEAN, f \in BOOLEAN }

ValidFiles == UNION {[1..n -> ValidEntries] : n \in 0..MaxEntries}

InitValidate ==
    /\ pc = "validate"
    /\ InitExtra
    /\ translations_by_language = EmptyDict
    /\ translation_sources = EmptyDict
    /\ package_layer = EmptyDict
    /\ bundle_translations = EmptyDict
    /\ instance_translations = EmptyDict
    /\ pending = {}
    /\ n_collected = 0
    /\ last_call = NoCall
    /\ output_files = EmptyDict
    /\ po_file \in ValidFiles
    /\ package_name \in PackageNames
    /\ pos = 0
    /\ result = EmptyDict
    /\ prev_result = EmptyDict
    /\ report = EmptyDict
    /\ packages = <<>>
    /\ reports = <<>>
    /\ summary = EmptyDict

ValidatePo ==
    /\ pc = "validate"
    /\ \E locale \in Locales : report' = validate_po(po_file, package_name, locale)
    /\ pc' = "validated"
    /\ UNCHANGED <<packages, reports, summary>>
    /\ UNCHANGED <<mergeVars, convVars, extraVars>>

NextValidate == ValidatePo

SpecValidate == InitValidate /\ [][NextValidate]_vars

\* The msgids of the entries of a file that satisfy a test, in file order
MsgidsWhere(entries, Test(_)) ==
    LET kept == SelectSeq(entries, Test)
    IN  [i \in 1..Len(kept) |-> kept[i].msgid]

IsObsolete(e) == e.obsolete
IsFuzzy(e) == ~e.obsolete /\ "fuzzy" \in e.flags
IsUntranslated(e) ==
    /\ ~e.obsolete
    /\ "fuzzy" \notin e.flags
    /\ Len(e.msgstr) = 0
    /\ DOMAIN e.msgstr_plural = {}

\* C7: validate_po lists each entry in at most one issue list, by priority
\* obsolete, fuzzy, untranslated; the lists hold exactly the entries of their
\* class and each count is the length of its list.
C7_ClassificationExclusive ==
    pc = "validated" =>
      /\ report.issues.obsolete = MsgidsWhere(po_file, IsObsolete)
      /\ report.issues.fuzzy = MsgidsWhere(po_file, IsFuzzy)
      /\ report.issues.untranslated = MsgidsWhere(po_file, IsUntranslated)
      /\ Len(report.issues.obsolete) + Len(report.issues.fuzzy)
           + Len(report.issues.untranslated)
           = Cardinality({i \in 1..Len(po_file) :
                            IsObsolete(po_file[i]) \/ IsFuzzy(po_file[i])
                            \/ IsUntranslated(po_file[i])})
      /\ report.counts.obsoleteTranslations = Len(report.issues.obsolete)
      /\ report.counts.fuzzyTranslations = Len(report.issues.fuzzy)
      /\ report.counts.untranslated = Len(report.issues.untranslated)

\* A validated file holding an entry that is obsolete, fuzzy and empty at
\* once, and a translated entry
C7_Witness ==
    /\ pc = "validated"
    /\ \E i, j \in 1..Len(po_file) :
         /\ po_file[i].obsolete
         /\ "fuzzy" \in po_file[i].flags
         /\ po_file[i].msgstr = <<>>
         /\ ~HasPlural(po_file[i])
         /\ ~po_file[j].obsolete
         /\ po_file[j].flags = {}
         /\ po_file[j].msgstr # <<>>
    /\ report.counts.obsoleteTranslations = 1
    /\ report.counts.fuzzyTranslations = 0
    /\ report.counts.untranslated = 0

(***************************************************************************)
(* validate.py: calculate_validation_summary                               *)
(***************************************************************************)
NewPackageBreakdown ==
    [locales |-> 0, total_issues |-> 0, untranslated_strings |-> 0,
     fuzzy_translations |-> 0, problematic_languages |-> <<>>]

NewLanguageBreakdown ==
    [packages |-> 0, total_issues |-> 0, untranslated_strings |-> 0,
     fuzzy_translations |-> 0, is_complete |-> TRUE]

SummaryAdd_without_obsolete(acc, r) ==
    LET total_issues == r.counts.untranslated + r.counts.fuzzyTranslations
        pb0 == SetDefault(acc.package_breakdown, r.package, NewPackageBreakdown)
        lb0 == SetDefault(acc.language_breakdown, r.locale, NewLanguageBreakdown)
        p == pb0[r.package]
        l == lb0[r.locale]
    IN  [package_breakdown |->
           Put(pb0, r.package,
               [locales |-> p.locales + 1,
                total_issues |-> p.total_issues + total_issues,
                untranslated_strings |-> p.untranslated_strings + r.counts.untranslated,
                fuzzy_translations |-> p.fuzzy_translations + r.counts.fuzzyTranslations,
                problematic_languages |->
                    IF total_issues > 0
                    THEN Append(p.problematic_languages,
                                [locale |-> r.locale, counts |-> r.counts])
                    ELSE p.problematic_languages]),
         language_breakdown |->
           Put(lb0, r.locale,
               [packages |-> l.packages + 1,
                total_issues |-> l.total_issues + total_issues,
                untranslated_strings |-> l.untranslated_strings + r.counts.untranslated,
                fuzzy_translations |-> l.fuzzy_translations + r.counts.fuzzyTranslations,
                is_complete |-> IF total_issues > 0 THEN FALSE ELSE l.is_complete])]

\* One iteration of "for report in all_reports" (validate.py lines 208-235)
SummaryAdd(acc, r) ==
    LET total_issues == CountsTotal(r.counts)
        pb0 == SetDefault(acc.package_breakdown, r.package, NewPackageBreakdown)
        lb0 == SetDefault(acc.language_breakdown, r.locale, NewLanguageBreakdown)
        p == pb0[r.package]
        l == lb0[r.locale]
    IN  [package_breakdown |->
           Put(pb0, r.package,
               [locales |-> p.locales + 1,
                total_issues |-> p.total_issues + total_issues,
                untranslated_strings |-> p.untranslated_strings + r.counts.untranslated,
                fuzzy_translations |-> p.fuzzy_translations + r.counts.fuzzyTranslations,
                problematic_languages |->
                    IF total_issues > 0
                    THEN Append(p.problematic_languages,
                                [locale |-> r.locale, counts |-> r.counts])
                    ELSE p.problematic_languages]),
         language_breakdown |->
           Put(lb0, r.locale,
               [packages |-> l.packages + 1,
                total_issues |-> l.total_issues + total_issues,
                untranslated_strings |-> l.untranslated_strings + r.counts.untranslated,
                fuzzy_translations |-> l.fuzzy_translations + r.counts.fuzzyTranslations,
                is_complete |-> IF total_issues > 0 THEN FALSE ELSE l.is_complete])]

RECURSIVE SummaryFrom(_, _, _)
SummaryFrom(acc, all_reports, i) ==
    IF i > Len(all_reports) THEN acc
    ELSE SummaryFrom(SummaryAdd(acc, all_reports[i]), all_reports, i + 1)

\* The count a report contributes to one of the sums of lines 240-242
ReportCount(r, what) ==
    IF what = "total" THEN CountsTotal(r.counts)
    ELSE IF what = "untranslated" THEN r.counts.untranslated
    ELSE r.counts.fuzzyTranslations

\* sum(... for r in all_reports) (validate.py lines 240-242)
RECURSIVE SumReports(_, _)
SumReports(all_reports, what) ==
    IF all_reports = <<>> THEN 0
    ELSE ReportCount(Head(all_reports), what) + SumReports(Tail(all_reports), what)

\* total_packages counts each package name once
calculate_validation_summary_distinct_packages(all_reports, names) ==
    LET acc == SummaryFrom([package_breakdown |-> EmptyDict,
                            language_breakdown |-> EmptyDict], all_reports, 1)
    IN  [total_packages |-> Cardinality({names[i] : i \in 1..Len(names)}),
         total_locales |->
             Cardinality({all_reports[i].locale : i \in 1..Len(all_reports)}),
         total_issues |-> SumReports(all_reports, "total"),
         untranslated_strings |-> SumReports(all_reports, "untranslated"),
         fuzzy_translations |-> SumReports(all_reports, "fuzzy"),
         package_breakdown |-> acc.package_breakdown,
         language_breakdown |-> acc.language_breakdown,
         reports |-> all_reports]

\* calculate_validation_summary (validate.py lines 191-252)
calculate_validation_summary(all_reports, names) ==
    LET acc == SummaryFrom([package_breakdown |-> EmptyDict,
                            language_breakdown |-> EmptyDict], all_reports, 1)
    IN  [total_packages |-> Len(names),
         total_locales |->
             Cardinality({all_reports[i].locale : i \in 1..Len(all_reports)}),
         total_issues |-> SumReports(all_reports, "total"),
         untranslated_strings |-> SumReports(all_reports, "untranslated"),
         fuzzy_translations |-> SumReports(all_reports, "fuzzy"),
         package_breakdown |-> acc.package_breakdown,
         language_breakdown |-> acc.language_breakdown,
         reports |-> all_reports]

(***************************************************************************)
(* validate_translations: one report per (package, locale) file found,     *)
(* then the summary                                                        *)
(***************************************************************************)
SummaryFiles ==
    { <<Entry(<<"X">>, <<"a">>)>>,
      <<Entry(<<"X">>, <<>>), Flagged(Entry(<<"Y">>, <<"a">>), FALSE, TRUE)>>,
      <<Flagged(Entry(<<"X">>, <<"a">>), TRUE, FALSE)>> }

InitSummary ==
    /\ pc = "reports"
    /\ InitIdle
    /\ InitExtra

\* get_package_validation_report is entered for the next package of the list
StartPackage ==
    /\ pc = "reports"
    /\ Len(packages) < MaxReports
    /\ \E name \in PackageNames : packages' = Append(packages, name)
    /\ UNCHANGED <<pc, report, reports, summary>>
    /\ UNCHANGED <<mergeVars, convVars, extraVars>>

\* One iteration of the loop over find_po_files (validate.py lines 162-168)
AddReport ==
    /\ pc = "reports"
    /\ packages # <<>>
    /\ Len(reports) < MaxReports
    /\ \E locale \in Locales, file \in SummaryFiles :
         /\ report' = validate_po(file, packages[Len(packages)], locale)
         /\ reports' = Append(reports, report')
    /\ UNCHANGED <<pc, packages, summary>>
    /\ UNCHANGED <<mergeVars, convVars, extraVars>>

\* pofile(str(po_path)) raises on a malformed or unreadable file (validate.py
\* line 165); neither get_package_validation_report nor validate_translations
\* nor the validate command catches it, so the run ends without a summary
PoFileRaises ==
    /\ pc = "reports"
    /\ packages # <<>>
    /\ Len(reports) < MaxReports
    /\ pc' = "raised"
    /\ UNCHANGED <<report, packages, reports, summary>>
    /\ UNCHANGED <<mergeVars, convVars, extraVars>>

Summarize ==
    /\ pc = "reports"
    /\ summary' = calculate_validation_summary(reports, packages)
    /\ pc' = "summarized"
    /\ UNCHANGED <<report, packages, reports>>
    /\ UNCHANGED <<mergeVars, convVars, extraVars>>

NextSummary == StartPackage \/ AddReport \/ PoFileRaises \/ Summarize

SpecSummary == InitSummary /\ [][NextSummary]_vars

\* The reports of a list whose field has a given value
ReportsWith(field, value) == SelectSeq(reports, LAMBDA r : r[field] = value)

RECURSIVE IssuesIn(_)
IssuesIn(rs) ==
    IF rs = <<>> THEN 0
    ELSE Head(rs).counts.untranslated + Head(rs).counts.fuzzyTranslations
         + Head(rs).counts.obsoleteTranslations + IssuesIn(Tail(rs))

\* C8: each breakdown total is the sum of the issue counts of the reports of
\* that package (locale); a locale is complete exactly when that sum is zero;
\* problematic_languages lists exactly the locales of the package's reports
\* that have an issue.
C8_BreakdownsAreSums ==
    pc = "summarized" =>
      /\ DOMAIN summary.package_breakdown
           = {reports[i].package : i \in 1..Len(reports)}
      /\ DOMAIN summary.language_breakdown
           = {reports[i].locale : i \in 1..Len(reports)}
      /\ \A p \in DOMAIN summary.package_breakdown :
           LET b == summary.package_breakdown[p]
               rs == ReportsWith("package", p)
           IN  /\ b.total_issues = IssuesIn(rs)
               /\ {b.problematic_languages[i].locale :
                       i \in 1..Len(b.problematic_languages)}
                    = {rs[i].locale : i \in {j \in 1..Len(rs) : IssuesIn(<<rs[j]>>) > 0}}
      /\ \A l \in DOMAIN summary.language_breakdown :
           LET b == summary.language_breakdown[l]
               rs == ReportsWith("locale", l)
           IN  /\ b.total_issues = IssuesIn(rs)
               /\ b.is_complete <=> (IssuesIn(rs) = 0)

\* A summary over two packages that share a locale, one report clean, one
\* with only an obsolete entry
C8_Witness ==
    /\ pc = "summarized"
    /\ \E i, j \in 1..Len(reports) :
         /\ reports[i].package # reports[j].package
         /\ reports[i].locale = reports[j].locale
         /\ IssuesIn(<<reports[i]>>) = 0
         /\ reports[j].counts.obsoleteTranslations = 1
         /\ IssuesIn(<<reports[j]>>) = 1
         /\ ~summary.language_breakdown[reports[i].locale].is_complete

(***************************************************************************)
(* Further properties of the converter                                     *)
(***************************************************************************)
\* C11: the iteration that handles an obsolete entry or an entry with an
\* empty msgid emits nothing; the iteration that handles any other entry
\* without plural forms emits exactly the key "<pkg>:<msgid>", holding the
\* trimmed msgstr (the msgid when the msgstr is empty), and touches no other key.
C11_SingularEmitsOneKey ==
    [][(pc = "convert" /\ pos' = pos + 1) =>
         LET entry == po_file[pos']
         IN  /\ (entry.obsolete \/ Len(entry.msgid) = 0) => result' = result
             /\ (~entry.obsolete /\ Len(entry.msgid) > 0
                 /\ DOMAIN entry.msgstr_plural = {}) =>
                  \E np \in [1..Len(package_name) -> {"p", "q", "a", "-", "_"}] :
                    LET base == np \o <<":">> \o entry.msgid
                    IN  /\ IsNormalizedName(np, package_name)
                        /\ DOMAIN result' = (DOMAIN result) \cup {base}
                        /\ IsTrimOf(result'[base],
                                    IF Len(entry.msgstr) > 0 THEN entry.msgstr
                                    ELSE entry.msgid)
                        /\ \A k \in (DOMAIN result) \ {base} :
                             result'[k] = result[k]]_vars

\* The converter has skipped an obsolete entry and then handled an entry of
\* package "p-a" whose msgid and msgstr carry surrounding whitespace
C11_Witness ==
    /\ pc = "convert"
    /\ pos = 2
    /\ package_name = PkgA
    /\ po_file[1].obsolete
    /\ po_file[2] = Entry(<<" ", "X">>, <<" ", "a", " ">>)
    /\ prev_result = EmptyDict
    /\ result = (<<"p", "_", "a", ":", " ", "X">> :> <<"a">>)

(***************************************************************************)
(* js-translation distribute: distribute_js_translations_from_directory on *)
(* a directory of locale files, one step per locale file                   *)
(***************************************************************************)
MaxEntryPoints == 2  \* entry points registered in the group

ProvA == (ModA :> (BaseKey(ModA, <<"X">>) :> <<"package">>))
TransQ == (BaseKey(PkgQ, <<"Y">>) :> <<"a">>)

\* Contents of the locale files: package -> translation map, with or without
\* the metadata block
DistContents ==
    {JsonA, JsonB, (PkgQ :> TransQ),
     Put(JsonA, TranslationSourcesKey, ProvA),
     (TranslationSourcesKey :> ProvA)}

DistFiles ==
    {[valid |-> TRUE, content |-> c] : c \in DistContents}
    \cup {[valid |-> FALSE, content |-> EmptyDict]}

DistDirs == UNION {[ls -> DistFiles] : ls \in SUBSET Locales}

EntryPoints ==
    {[name |-> ModA, path |-> "site_a"],
     [name |-> <<"x">>, path |-> "site_x"],
     [name |-> TranslationSourcesKey, path |-> "site_m"]}

EntryPointLists == UNION {[1..n -> EntryPoints] : n \in 0..MaxEntryPoints}

ExceptionalMaps == {EmptyDict, (<<"x">> :> PkgQ), (<<"x">> :> ModA)}

InitDistribute ==
    /\ pc = "distribute_start"
    /\ InitIdle
    /\ json_directory \in DistDirs
    /\ entrypoints \in EntryPointLists
    /\ exceptional_package_names \in ExceptionalMaps
    /\ target_fs = PriorFs
    /\ results = <<>>
    /\ collect_log = <<>>
    /\ InitOther

\* results = [] and the start of input_directory.iterdir()
DistributeStart ==
    /\ pc = "distribute_start"
    /\ pending' = DOMAIN json_directory
    /\ results' = <<>>
    /\ pc' = "distribute"
    /\ UNCHANGED <<translations_by_language, translation_sources, package_layer,
                   bundle_translations, instance_translations, n_collected, last_call,
                   output_files>>
    /\ UNCHANGED <<json_directory, entrypoints, exceptional_package_names, target_fs,
                   collect_log>>
    /\ UNCHANGED <<convVars, validVars, otherVars>>

\* One locale file: skipped when its JSON does not decode, distributed otherwise
DistributeFile ==
    /\ pc = "distribute"
    /\ \E language \in pending :
         LET st == IF language \in source_translation_files(json_directory)
                   THEN DistributeLanguage([fs |-> target_fs, results |-> results],
                                           json_directory, language,
                                           exceptional_package_names, entrypoints)
                   ELSE [fs |-> target_fs, results |-> results]
         IN  /\ target_fs' = st.fs
             /\ results' = st.results
             /\ pending' = pending \ {language}
             /\ last_call' = [op |-> "distribute", language |-> language]
    /\ UNCHANGED <<pc, translations_by_language, translation_sources, package_layer,
                   bundle_translations, instance_translations, n_collected,
                   output_files>>
    /\ UNCHANGED <<json_directory, entrypoints, exceptional_package_names, collect_log>>
    /\ UNCHANGED <<convVars, validVars, otherVars>>

DistributeReturn ==
    /\ pc = "distribute"
    /\ pending = {}
    /\ pc' = "distributed"
    /\ UNCHANGED <<mergeVars, convVars, validVars, extraVars>>

NextDistribute == DistributeStart \/ DistributeFile \/ DistributeReturn

SpecDistribute == InitDistribute /\ [][NextDistribute]_vars

\* The (package, locale) pairs of the readable locale files, metadata keys excluded
IsMetadataKey(name) == name # <<>> /\ Head(name) = "_"
ReadableLocales == {l \in DOMAIN json_directory : json_directory[l].valid}
DistPairs ==
    {pl \in (UNION {DOMAIN json_directory[l].content : l \in ReadableLocales})
              \X ReadableLocales :
        pl[1] \in DOMAIN json_directory[pl[2]].content /\ ~IsMetadataKey(pl[1])}
\* The names under which the entry points register a target
RegisteredNames ==
    {IF entrypoints[i].name \in DOMAIN exceptional_package_names
     THEN exceptional_package_names[entrypoints[i].name]
     ELSE entrypoints[i].name : i \in 1..Len(entrypoints)}
RecordsOf(name, language) ==
    {i \in 1..Len(results) :
        results[i].package = name /\ results[i].language = language}
\* The target files that differ from what was there before the run
ChangedFiles ==
    {f \in DOMAIN target_fs : f \notin DOMAIN PriorFs \/ target_fs[f] # PriorFs[f]}

\* C12: when the distribution has returned, every package of a readable locale
\* file that has no registered target has exactly one record, which is
\* (package, locale, None, skipped), and no target file of that package and
\* locale was written; every registered package of the same files still has its
\* written record; and when no package of the input is registered, the report
\* holds only skip records and no file has changed.
C12_UnregisteredSkipped ==
    pc = "distributed" =>
      /\ \A pl \in DistPairs :
           IF pl[1] \notin RegisteredNames
           THEN /\ Cardinality(RecordsOf(pl[1], pl[2])) = 1
                /\ \A i \in RecordsOf(pl[1], pl[2]) :
                     results[i] = DistRecord(pl[1], pl[2], None, TRUE)
                /\ \A f \in ChangedFiles : ~(f.name = pl[1] /\ f.language = pl[2])
           ELSE \E i \in RecordsOf(pl[1], pl[2]) : ~results[i].skipped
      /\ (\A pl \in DistPairs : pl[1] \notin RegisteredNames) =>
           /\ \A i \in 1..Len(results) : results[i].skipped
           /\ ChangedFiles = {}

\* A locale file with an unregistered package next to a registered one, and a
\* second locale file processed after it
C12_Witness ==
    /\ pc = "distributed"
    /\ \E pl \in DistPairs, ql \in DistPairs :
         /\ pl[1] \notin RegisteredNames /\ ql[1] \in RegisteredNames
         /\ pl[2] = ql[2]
    /\ Cardinality(ReadableLocales) = 2
    /\ \E i \in 1..Len(results) : results[i].skipped
    /\ \E i \in 1..Len(results) : ~results[i].skipped

\* C13: no record of the report names a key that starts with "_", and no
\* target file of such a name is created or changed, whether or not an entry
\* point registers a target under that name.
C13_MetadataNeverDistributed ==
    /\ \A i \in 1..Len(results) : ~IsMetadataKey(results[i].package)
    /\ \A f \in ChangedFiles : ~IsMetadataKey(f.name)

\* A locale file with the metadata block was distributed while an entry point
\* of the name "_translation_sources" was registered
C13_Witness ==
    /\ pc = "distributed"
    /\ TranslationSourcesKey \in RegisteredNames
    /\ \E l \in ReadableLocales :
         /\ TranslationSourcesKey \in DOMAIN json_directory[l].content
         /\ ModA \in DOMAIN json_directory[l].content
    /\ results # <<>>

\* C14: when the distribution has returned, the report has exactly one record
\* for every (package, locale) pair of the readable locale files and no other
\* record; a record has a target path exactly when it is not marked skipped;
\* and the target file of a record not marked skipped holds exactly the
\* package's translation map of that locale file.
C14_ReportExact ==
    pc = "distributed" =>
      /\ \A pl \in DistPairs : Cardinality(RecordsOf(pl[1], pl[2])) = 1
      /\ \A i \in 1..Len(results) :
           /\ <<results[i].package, results[i].language>> \in DistPairs
           /\ (results[i].target_file # None) <=> ~results[i].skipped
           /\ ~results[i].skipped =>
                /\ results[i].target_file \in DOMAIN target_fs
                /\ target_fs[results[i].target_file]
                     = json_directory[results[i].language].content[results[i].package]

\* A written record whose target file held other content before the run, next
\* to a skipped record
C14_Witness ==
    /\ pc = "distributed"
    /\ \E i \in 1..Len(results) :
         /\ ~results[i].skipped
         /\ results[i].target_file \in DOMAIN PriorFs
         /\ target_fs[results[i].target_file] # PriorFs[results[i].target_file]
    /\ \E i \in 1..Len(results) : results[i].skipped

(***************************************************************************)
(* Failure isolation in the collector                                      *)
(***************************************************************************)
\* The collector run on a list of visited items, from empty maps
RECURSIVE CollectAll(_)
CollectAll(log) ==
    IF log = <<>> THEN [tbl |-> EmptyDict, ts |-> EmptyDict]
    ELSE LET before == CollectAll(SubSeq(log, 1, Len(log) - 1))
             item == log[Len(log)]
         IN  IF item.skip THEN before
             ELSE add_package_locale_translations(item.name, item.locale, item.file,
                                                  before.tbl, before.ts)

Failed(item) == item.skip \/ ~item.file.readable

\* locale -> package -> content, as a set of (locale, package, content) triples
PackageContents(d) ==
    UNION {{<<l, p, d[l][p]>> : p \in DOMAIN d[l]} : l \in DOMAIN d}

\* C15: while the collector runs, the translations and the provenance of
\* every package of every locale are those of the run that visits the same
\* items without the files that failed to load and without the packages whose
\* root was not found; the collector goes on after a failure.
C15_FailureSkipsOnlyThatFile ==
    pc = "collect" =>
      LET reference == CollectAll(SelectSeq(collect_log, LAMBDA item : ~Failed(item)))
      IN  /\ PackageContents(translations_by_language) = PackageContents(reference.tbl)
          /\ PackageContents(translation_sources) = PackageContents(reference.ts)

\* A readable file, then a failing file of the same locale, with the first
\* file's translations still there
C15_Witness ==
    /\ pc = "collect"
    /\ Len(collect_log) = 2
    /\ ~Failed(collect_log[1]) /\ collect_log[1].file = PoA
    /\ ~collect_log[2].skip /\ ~collect_log[2].file.readable
    /\ collect_log[2].locale = collect_log[1].locale
    /\ PackageContents(translations_by_language) # {}

(***************************************************************************)
(* Malformed bundle and instance files                                     *)
(***************************************************************************)
\* C16: loading and merging the bundle layer never aborts the build, whatever
\* the bundle files hold: the build is never left by an exception.
C16_MalformedNeverAborts == pc # "crashed"

(***************************************************************************)
(* The distribution step of js-translation build                           *)
(***************************************************************************)
\* C19: when the build has finished, every record of the distribution report
\* and every target file the distribution created or changed belongs to a
\* locale of the translations collected and merged in this run.
C19_NoCarryOver ==
    pc = "done" =>
      /\ \A i \in 1..Len(results) :
           results[i].language \in DOMAIN translations_by_language
      /\ \A f \in ChangedFiles : f.language \in DOMAIN translations_by_language

(***************************************************************************)
(* discovery.py: the PO files of a package. A path below the package root  *)
(* is [root, locale, file]: <root>/<locale>/<file>, root being one of the  *)
(* two translation roots or one of the two assets message directories.     *)
(***************************************************************************)
PoPath(root, locale, file) == [root |-> root, locale |-> locale, file |-> file]

\* sorted(base.iterdir()) over the locale directories
LocaleOrder == <<"de", "en">>

\* _get_translation_roots (discovery.py lines 46-56)
TranslationRoots == <<"translations", "module/translations">>

\* js_assets_paths of find_js_po_files (discovery.py lines 147-162)
AssetsRoots == <<"assets/messages", "theme/assets/messages">>

\* _find_po_files_in_roots (discovery.py lines 59-77): the paths it tries, in order
CandidatePaths(roots, file) ==
    [i \in 1..(Len(roots) * Len(LocaleOrder)) |->
        PoPath(roots[((i - 1) \div Len(LocaleOrder)) + 1],
               LocaleOrder[((i - 1) % Len(LocaleOrder)) + 1], file)]

find_po_files_in_roots(tree, roots, file) ==
    SelectSeq(CandidatePaths(roots, file), LAMBDA path : path \in DOMAIN tree)

\* find_po_files (discovery.py lines 80-90)
find_po_files(tree) ==
    find_po_files_in_roots(tree, TranslationRoots, "LC_MESSAGES/messages.po")

\* Only the assets directories are searched
find_js_po_files_assets_only(tree) ==
    find_po_files_in_roots(tree, AssetsRoots, "messages.po")

\* find_js_po_files (discovery.py lines 131-163)
find_js_po_files(tree) ==
    find_po_files_in_roots(tree, TranslationRoots, "LC_MESSAGES/messages-js.po")
    \o find_po_files_in_roots(tree, AssetsRoots, "messages.po")

(***************************************************************************)
(* js-translation build for one package, from the package's files on disk  *)
(***************************************************************************)
PkgP == <<"p">>
Save == <<"S", "a", "v", "e">>
Speichern == <<"S", "p", "e", "i", "c", "h", "e", "r", "n">>
PoSave == [readable |-> TRUE, entries |-> <<Entry(Save, Speichern)>>]

TreePaths ==
    {PoPath("translations", "de", "LC_MESSAGES/messages.po"),
     PoPath("translations", "de", "LC_MESSAGES/messages-js.po"),
     PoPath("assets/messages", "de", "messages.po"),
     PoPath("module/translations", "en", "LC_MESSAGES/messages-js.po")}

PackageTrees == UNION {[ps -> {PoSave, PoBad}] : ps \in SUBSET TreePaths}

EndToEndEntryPoints == <<[name |-> PkgP, path |-> "site_p"]>>

InitEndToEnd ==
    /\ pc = "build"
    /\ InitIdle
    /\ json_directory = EmptyDict
    /\ entrypoints = EndToEndEntryPoints
    /\ exceptional_package_names = EmptyDict
    /\ target_fs = PriorFs
    /\ results = <<>>
    /\ collect_log = <<>>
    /\ package_tree \in PackageTrees
    /\ argv = EmptyDict
    /\ po_disk = <<>>
    /\ io_log = <<>>
    /\ outcome = EmptyDict

\* collect_js_package_translations([P]): every file find_js_po_files yields
BuildCollect ==
    /\ pc = "build"
    /\ LET found == find_js_po_files(package_tree)
           log == [i \in 1..Len(found) |->
                     [skip |-> FALSE, name |-> PkgP, locale |-> found[i].locale,
                      file |-> package_tree[found[i]]]]
           r == CollectAll(log)
       IN  /\ translations_by_language' = r.tbl
           /\ translation_sources' = r.ts
           /\ collect_log' = log
           /\ n_collected' = Len(found)
    /\ pc' = "collected"
    /\ last_call' = [op |-> "collect_packages"]
    /\ UNCHANGED <<package_layer, bundle_translations, instance_translations, pending,
                   output_files>>
    /\ UNCHANGED <<convVars, validVars, distVars, otherVars>>

NextEndToEnd ==
    \/ BuildCollect
    \/ LoadBundles
    \/ MergeBundleLocale
    \/ LoadInstance
    \/ MergeInstanceLocale
    \/ WriteOutputs
    \/ Distribute

SpecEndToEnd == InitEndToEnd /\ [][NextEndToEnd]_vars

\* The package part and the per-package provenance of a written locale file
PackagePart(doc) == [k \in DOMAIN doc \ {TranslationSourcesKey} |-> doc[k]]
ProvenancePart(doc) ==
    IF TranslationSourcesKey \in DOMAIN doc
    THEN [k \in DOMAIN doc[TranslationSourcesKey] \ {DescriptionKey} |->
             doc[TranslationSourcesKey][k]]
    ELSE EmptyDict

SaveKey == BaseKey(PkgP, Save)
OnlyFile(path) == DOMAIN package_tree = {path} /\ package_tree[path] = PoSave
NoOverrides == bundle_translations = EmptyDict /\ instance_translations = EmptyDict
WroteSave ==
    /\ "de" \in DOMAIN output_files
    /\ PackagePart(output_files["de"]) = (PkgP :> (SaveKey :> Speichern))
    /\ ProvenancePart(output_files["de"]) = (PkgP :> (SaveKey :> <<"package">>))

\* C17 as stated: the package's only translation file is
\* translations/de/LC_MESSAGES/messages.po with msgid "Save", msgstr
\* "Speichern", there is no bundle and no instance layer, and the build has
\* written de.json with the package content {"p": {"p:Save": "Speichern"}}
\* and the provenance {"p": {"p:Save": ["package"]}}.
C17_EndToEndMessagesPo ==
    (pc \in {"merged", "done"} /\ NoOverrides
     /\ OnlyFile(PoPath("translations", "de", "LC_MESSAGES/messages.po")))
      => WroteSave

\* C17 (amended): the same with the file translations/de/LC_MESSAGES/messages-js.po,
\* and de.json is the only file written.
C17_EndToEndMessagesJsPo ==
    (pc \in {"merged", "done"} /\ NoOverrides
     /\ OnlyFile(PoPath("translations", "de", "LC_MESSAGES/messages-js.po")))
      => (WroteSave /\ DOMAIN output_files = {"de"})

C17_Witness ==
    /\ pc = "done"
    /\ NoOverrides
    /\ OnlyFile(PoPath("translations", "de", "LC_MESSAGES/messages-js.po"))
    /\ json_directory = ("de" :> [valid |-> TRUE, content |-> output_files["de"]])
    /\ Len(results) = 1

(***************************************************************************)
(* utils.py: update_po_file. The PO file on disk is [present, readable,    *)
(* writable, entries]; polib keeps the obsolete entries in the same list   *)
(* as the others and writes them after the others when it saves.           *)
(***************************************************************************)
Err(kind) == [error |-> kind]

UpdateResult(updated, created_new, count, error) ==
    [updated |-> updated, created_new |-> created_new, count |-> count,
     error |-> error]

\* The test of both loops (utils.py lines 523, 533)
Matches(entry, msgid, match_prefix) ==
    (match_prefix /\ IsPrefix(msgid, entry.msgid)) \/ entry.msgid = msgid

\* entry.msgstr = msgstr; remove_fuzzy_flag(entry)
SetTranslation(entry, msgstr) ==
    [entry EXCEPT !.msgstr = msgstr, !.flags = @ \ {"fuzzy"}]

Indices(entries) == [i \in 1..Len(entries) |-> i]

\* The indices a loop with "if not match_prefix: break" changes: all the hits,
\* or the first hit only
Chosen(hits, match_prefix) ==
    IF match_prefix \/ hits = <<>> THEN hits ELSE <<Head(hits)>>

\* The first loop (utils.py lines 522-529), over every entry of the file
FirstLoop(entries, msgid, msgstr, match_prefix) ==
    LET hits == SelectSeq(Indices(entries),
                          LAMBDA i : Matches(entries[i], msgid, match_prefix))
        chosen == Chosen(hits, match_prefix)
    IN  [entries |-> [i \in 1..Len(entries) |->
                         IF Contains(chosen, i) THEN SetTranslation(entries[i], msgstr)
                         ELSE entries[i]],
         count |-> Len(chosen)]

\* The second loop (utils.py lines 531-541), over the obsolete entries: each
\* hit is changed in place and appended to the file once more
SecondLoop(entries, msgid, msgstr, match_prefix) ==
    LET hits == SelectSeq(Indices(entries),
                          LAMBDA i : entries[i].obsolete
                                     /\ Matches(entries[i], msgid, match_prefix))
        chosen == Chosen(hits, match_prefix)
        revived(i) == [SetTranslation(entries[i], msgstr) EXCEPT !.obsolete = FALSE]
    IN  [entries |-> [i \in 1..Len(entries) |->
                         IF Contains(chosen, i) THEN revived(i) ELSE entries[i]]
                     \o [j \in 1..Len(chosen) |-> revived(chosen[j])],
         count |-> Len(chosen)]

\* POFile.save(): the entries that are not obsolete, then the obsolete ones
SaveOrder(entries) ==
    SelectSeq(entries, LAMBDA e : ~e.obsolete) \o SelectSeq(entries, LAMBDA e : e.obsolete)

\* is_js_po (utils.py lines 554-558)
is_js_po(path) ==
    path.root \in {"assets/messages", "theme/assets/messages"}
    \/ path.file = "messages.po"

\* update_po_file (utils.py lines 488-573); compile_ok is the exit status of
\* pybabel compile. The result is the new file, the returned tuple and the
\* file-system operations made.
update_po_file(disk, path, msgid, msgstr, match_prefix, compile_ok) ==
    IF ~disk.readable
    THEN [disk |-> disk, result |-> UpdateResult(FALSE, FALSE, 0, Err("open")),
          io |-> <<"read_po">>]
    ELSE
      LET l1 == FirstLoop(disk.entries, msgid, msgstr, match_prefix)
          l2 == IF l1.count = 0 \/ match_prefix
                THEN SecondLoop(l1.entries, msgid, msgstr, match_prefix)
                ELSE [entries |-> l1.entries, count |-> 0]
          count == l1.count + l2.count
          created_new == count = 0 /\ ~match_prefix
          in_memory == IF created_new THEN Append(l2.entries, Entry(msgid, msgstr))
                       ELSE l2.entries
          updated == count > 0 \/ created_new
          saved == [disk EXCEPT !.entries = SaveOrder(in_memory)]
      IN  IF ~updated
          THEN [disk |-> disk, result |-> UpdateResult(FALSE, FALSE, 0, None),
                io |-> <<"read_po">>]
          ELSE IF ~disk.writable
          THEN [disk |-> disk, result |-> UpdateResult(FALSE, FALSE, 0, Err("save")),
                io |-> <<"read_po">>]
          ELSE IF is_js_po(path)
          THEN [disk |-> saved, result |-> UpdateResult(updated, created_new, count, None),
                io |-> <<"read_po", "write_po">>]
          ELSE [disk |-> saved,
                result |-> UpdateResult(updated, created_new, count,
                                        IF compile_ok THEN None ELSE Err("compile")),
                io |-> <<"read_po", "write_po", "compile">>]

(***************************************************************************)
(* cli.py: build-translations and update-translation. A command's result  *)
(* is [disk, io, result, message]: the PO file afterwards, the file-system *)
(* operations made, what update_po_file returned, and the line reported.   *)
(***************************************************************************)
MaxPoEntries == 2    \* entries of the PO file given to update-translation

CommandResult(disk, io, returned, message) ==
    [disk |-> disk, io |-> io, result |-> returned, message |-> message]

\* The path find_po_files and find_bundle_po_file return for a locale
UpdatePath(locale) == PoPath("translations", locale, "LC_MESSAGES/messages.po")

\* update_translation (cli.py lines 252-345); args.root_found tells whether
\* find_package_path / find_bundle_path found the root, disk.present whether a
\* PO file of the locale exists below it, args.instance_po whether the
\* instance has a PO file of the locale
update_translation(args, disk, compile_ok) ==
    IF args.package = <<>> /\ args.bundle = <<>>
    THEN CommandResult(disk, <<>>, None, "Error: Provide --package or --bundle")
    ELSE IF args.package # <<>> /\ args.bundle # <<>>
    THEN CommandResult(disk, <<>>, None,
                       "Error: Cannot specify both --package and --bundle")
    ELSE IF ~args.root_found
    THEN CommandResult(disk, <<"find_root">>, None, "not found")
    ELSE IF ~disk.present
    THEN CommandResult(disk, <<"find_root", "find_po_file">>, None, "No PO file")
    ELSE
      LET before == <<"find_root", "find_po_file">>
                    \o (IF args.package = <<>> /\ args.instance_po
                        THEN <<"read_instance_po">> ELSE <<>>)
          r == update_po_file(disk, UpdatePath(args.locale), args.msgid, args.msgstr,
                              args.prefix, compile_ok)
      IN  CommandResult(r.disk, before \o r.io, r.result,
                        IF r.result.error # None THEN "Error"
                        ELSE IF ~r.result.updated THEN ""
                        ELSE IF args.prefix THEN "Updated n translation(s) matching"
                        ELSE IF r.result.created_new THEN "Created"
                        ELSE "Updated")

\* build_translations (cli.py lines 112-166); collect_ok tells whether
\* collecting and writing went through without an OSError or ValueError
build_translations(args, disk, collect_ok) ==
    IF args.all_packages /\ args.packages # <<>>
    THEN CommandResult(disk, <<>>, None,
                       "Error: Provide --packages or --all-packages")
    ELSE IF args.all_locales /\ args.locales # <<>>
    THEN CommandResult(disk, <<>>, None, "Error: Provide --locales or --all-locales")
    ELSE
      LET scan == IF args.all_packages THEN <<"find_all_packages">> ELSE <<>>
      IN  IF args.all_locales
          THEN CommandResult(disk, scan, None, "Error: --all-locales not implemented yet")
          ELSE IF args.locales = <<>>
          THEN CommandResult(disk, scan, None, "Error: Provide --locale")
          ELSE IF collect_ok
          THEN CommandResult(disk, scan \o <<"read_po_files", "write_json">>, None,
                             "Collected")
          ELSE CommandResult(disk, scan \o <<"read_po_files">>, None, "Error")

\* ensure_parent_directory (utils.py lines 67-71), the callback of the
\* required option --path-to-global-pot: Click calls it while it parses the
\* command line, before the command function is entered
ensure_parent_directory(args) ==
    IF args.parent_exists THEN <<>> ELSE <<"mkdir">>

NoDisk == [present |-> FALSE, readable |-> FALSE, writable |-> FALSE, entries |-> <<>>]

XY == <<"X", "Y">>
UpdateEntries ==
    {Flagged(Entry(<<"X">>, <<"a">>), o, f) : o \in BOOLEAN, f \in BOOLEAN}
    \cup {Entry(XY, <<"b">>), Flagged(Entry(XY, <<"b">>), TRUE, FALSE),
          Entry(<<"Y">>, <<"c">>)}

PoDisks ==
    {NoDisk}
    \cup {[present |-> TRUE, readable |-> rw[1], writable |-> rw[2], entries |-> es] :
             rw \in {<<TRUE, TRUE>>, <<TRUE, FALSE>>, <<FALSE, FALSE>>},
             es \in UNION {[1..n -> UpdateEntries] : n \in 0..MaxPoEntries}}

BuildInvocations ==
    {[command |-> "build-translations", packages |-> ps, all_packages |-> ap,
      locales |-> ls, all_locales |-> al, parent_exists |-> pe] :
        ps \in {<<>>, <<PkgA>>}, ap \in BOOLEAN, ls \in {<<>>, <<"de">>},
        al \in BOOLEAN, pe \in BOOLEAN}

UpdateInvocations ==
    {[command |-> "update-translation", package |-> pk, bundle |-> b,
      locale |-> "de", msgid |-> m, msgstr |-> <<"n">>, prefix |-> pf,
      root_found |-> rf, instance_po |-> ip] :
        pk \in {<<>>, PkgA}, b \in {<<>>, <<"b">>}, m \in {<<"X">>, <<"Z">>},
        pf \in BOOLEAN, rf \in BOOLEAN, ip \in BOOLEAN}

InitCli ==
    /\ pc = "cli"
    /\ InitIdle
    /\ InitNoDistribution
    /\ collect_log = <<>>
    /\ package_tree = EmptyDict
    /\ \/ argv \in BuildInvocations /\ po_disk = NoDisk
       \/ argv \in UpdateInvocations /\ po_disk \in PoDisks
    /\ io_log = <<>>
    /\ outcome = EmptyDict

\* Click parses the command line and runs the option callbacks
ParseOptions ==
    /\ pc = "cli"
    /\ io_log' = IF argv.command = "build-translations"
                 THEN io_log \o ensure_parent_directory(argv) ELSE io_log
    /\ pc' = "parsed"
    /\ UNCHANGED <<argv, po_disk, outcome, package_tree>>
    /\ UNCHANGED <<mergeVars, convVars, validVars, distVars, collect_log>>

BuildTranslations ==
    /\ pc = "parsed"
    /\ argv.command = "build-translations"
    /\ \E collect_ok \in BOOLEAN :
         LET r == build_translations(argv, po_disk, collect_ok)
         IN  /\ io_log' = io_log \o r.io
             /\ outcome' = [result |-> r.result, message |-> r.message]
    /\ pc' = "returned"
    /\ UNCHANGED <<argv, po_disk, package_tree>>
    /\ UNCHANGED <<mergeVars, convVars, validVars, distVars, collect_log>>

UpdateTranslation ==
    /\ pc = "parsed"
    /\ argv.command = "update-translation"
    /\ \E compile_ok \in BOOLEAN :
         LET r == update_translation(argv, po_disk, compile_ok)
         IN  /\ po_disk' = r.disk
             /\ io_log' = io_log \o r.io
             /\ outcome' = [result |-> r.result, message |-> r.message]
    /\ pc' = "returned"
    /\ UNCHANGED <<argv, package_tree>>
    /\ UNCHANGED <<mergeVars, convVars, validVars, distVars, collect_log>>

NextCli == ParseOptions \/ BuildTranslations \/ UpdateTranslation

SpecCli == InitCli /\ [][NextCli]_vars

\* The flag combinations the two commands reject
ConflictingFlags(args) ==
    IF args.command = "build-translations"
    THEN (args.all_packages /\ args.packages # <<>>)
         \/ (args.all_locales /\ args.locales # <<>>)
    ELSE (args.package # <<>> /\ args.bundle # <<>>)
         \/ (args.package = <<>> /\ args.bundle = <<>>)

\* C18: a command that was given conflicting flags has, when it returns,
\* reported an error, made no file-system operation (no directory created, no
\* file read or written) and left the PO file alone.
C18_AbortBeforeIO ==
    (pc = "returned" /\ ConflictingFlags(argv)) =>
      /\ io_log = <<>>
      /\ outcome.message \in {"Error: Provide --packages or --all-packages",
                               "Error: Provide --locales or --all-locales",
                               "Error: Provide --package or --bundle",
                               "Error: Cannot specify both --package and --bundle"}
      /\ outcome.result = None

EntriesWith(entries, msgid) == SelectSeq(entries, LAMBDA e : e.msgid = msgid)

\* C20: when update-translation is run for a package or a bundle without
\* --prefix, the PO file can be read and saved and holds exactly one entry with
\* the given msgid, then afterwards the file holds exactly one entry with that
\* msgid, it is the old entry with the new msgstr and without the fuzzy flag,
\* the entries with other msgids are the same as before, update_po_file
\* returned created_new false, and the command reported "Updated".
C20_ExactUpdateReported ==
    [][(/\ pc = "parsed" /\ pc' = "returned"
        /\ argv.command = "update-translation"
        /\ ~ConflictingFlags(argv) /\ argv.root_found /\ ~argv.prefix
        /\ po_disk.present /\ po_disk.readable /\ po_disk.writable
        /\ Len(EntriesWith(po_disk.entries, argv.msgid)) = 1)
       =>
         LET old == EntriesWith(po_disk.entries, argv.msgid)[1]
         IN  /\ EntriesWith(po_disk'.entries, argv.msgid)
                  = <<[old EXCEPT !.msgstr = argv.msgstr, !.flags = @ \ {"fuzzy"}]>>
             /\ \A m \in {<<"X">>, XY, <<"Y">>, <<"Z">>} \ {argv.msgid} :
                  EntriesWith(po_disk'.entries, m) = EntriesWith(po_disk.entries, m)
             /\ outcome'.result # None
             /\ outcome'.result.created_new = FALSE
             /\ outcome'.message = "Updated"]_vars

(***************************************************************************)
(* Further properties of update_po_file, as called by update-translation   *)
(***************************************************************************)
\* The step in which update-translation reaches update_po_file on a PO file
\* that can be read and saved
CallsUpdatePoFile ==
    /\ pc = "parsed" /\ pc' = "returned"
    /\ argv.command = "update-translation"
    /\ ~ConflictingFlags(argv) /\ argv.root_found
    /\ po_disk.present /\ po_disk.readable /\ po_disk.writable

ActiveWith(entries, msgid) ==
    SelectSeq(entries, LAMBDA e : e.msgid = msgid /\ ~e.obsolete)

\* C21: without --prefix, (a) when no entry has the msgid, the saved file is
\* the old file with one new entry of that msgid and msgstr appended, and the
\* call returns updated and created_new true; (b) created_new is true only
\* then; (c) when at most one entry had the msgid, the saved file holds
\* exactly one entry with it that is not obsolete, whose msgstr is the new text.
C21_ExactCreatesOrUpdatesOne ==
    [][(CallsUpdatePoFile /\ ~argv.prefix) =>
         LET had == EntriesWith(po_disk.entries, argv.msgid)
             r == outcome'.result
         IN  /\ had = <<>> =>
                  /\ EntriesWith(po_disk'.entries, argv.msgid)
                       = <<Entry(argv.msgid, argv.msgstr)>>
                  /\ Len(po_disk'.entries) = Len(po_disk.entries) + 1
                  /\ r.updated /\ r.created_new
             /\ r.created_new => had = <<>>
             /\ Len(had) <= 1 =>
                  /\ Len(ActiveWith(po_disk'.entries, argv.msgid)) = 1
                  /\ ActiveWith(po_disk'.entries, argv.msgid)[1].msgstr = argv.msgstr]_vars

\* C25: with --prefix, the count returned is the number of entries of the
\* file, obsolete ones included, whose msgid starts with the prefix, and the
\* saved file has no more entries than the file had; without --prefix the
\* count is 1 when an entry with the msgid was there.
C25_CountIsEntriesChanged ==
    [][CallsUpdatePoFile =>
         LET hits == SelectSeq(po_disk.entries,
                               LAMBDA e : Matches(e, argv.msgid, argv.prefix))
             r == outcome'.result
         IN  /\ argv.prefix =>
                  /\ r.count = Len(hits)
                  /\ Len(po_disk'.entries) <= Len(po_disk.entries)
             /\ (~argv.prefix /\ hits # <<>>) =>
                  /\ r.count = 1
                  /\ Len(po_disk'.entries) = Len(po_disk.entries)]_vars

\* C26: whenever update_po_file returns an error message, the PO file is as
\* it was before the call and updated is false; whenever the call changed the
\* PO file, it returns no error and the command reports the update.
C26_ErrorMeansNothingChanged ==
    [][(/\ pc = "parsed" /\ pc' = "returned"
        /\ argv.command = "update-translation"
        /\ outcome'.result # None)
       =>
         /\ outcome'.result.error # None =>
              (po_disk' = po_disk /\ ~outcome'.result.updated)
         /\ po_disk' # po_disk =>
              /\ outcome'.result.error = None
              /\ outcome'.message \in {"Updated", "Created",
                                       "Updated n translation(s) matching"}]_vars

\* C27: without --prefix, when the msgid is in the file only as one obsolete
\* entry, the saved file holds exactly one entry with that msgid, which is not
\* obsolete and has the new msgstr, and created_new is false.
C27_ObsoleteEntryRevived ==
    [][(/\ CallsUpdatePoFile /\ ~argv.prefix
        /\ Len(EntriesWith(po_disk.entries, argv.msgid)) = 1
        /\ EntriesWith(po_disk.entries, argv.msgid)[1].obsolete)
       =>
         /\ Len(EntriesWith(po_disk'.entries, argv.msgid)) = 1
         /\ ~EntriesWith(po_disk'.entries, argv.msgid)[1].obsolete
         /\ EntriesWith(po_disk'.entries, argv.msgid)[1].msgstr = argv.msgstr
         /\ ~outcome'.result.created_new]_vars

(***************************************************************************)
(* The metadata block of the written locale files                          *)
(***************************************************************************)
HasBlock(l) == TranslationSourcesKey \in DOMAIN output_files[l]

\* At least one key of at least one package of the locale has a provenance list
KeyHasProvenance(l) ==
    /\ l \in DOMAIN translation_sources
    /\ \E p \in DOMAIN translation_sources[l] : translation_sources[l][p] # EmptyDict

\* At least one package of the locale is recorded in translation_sources
PackageRecorded(l) ==
    /\ l \in DOMAIN translation_sources
    /\ translation_sources[l] # EmptyDict

\* C22 (as stated): a written locale file has the "_translation_sources" block
\* exactly when at least one key of at least one package of the locale has a
\* provenance list
C22_BlockIffKeyProvenance ==
    pc \in {"merged", "done"} =>
        \A l \in DOMAIN output_files : HasBlock(l) <=> KeyHasProvenance(l)

\* C22 (amended): a written locale file has the "_translation_sources" block
\* exactly when translation_sources records at least one package for the
\* locale, with or without keys; the block then holds the description and the
\* locale's provenance maps, and a locale with no package recorded gets no block
C22_BlockIffPackageRecorded ==
    pc \in {"merged", "done"} =>
        \A l \in DOMAIN output_files :
            /\ HasBlock(l) <=> PackageRecorded(l)
            /\ HasBlock(l) =>
                  /\ DOMAIN output_files[l][TranslationSourcesKey]
                       = {DescriptionKey} \cup DOMAIN translation_sources[l]
                  /\ \A p \in DOMAIN translation_sources[l] :
                        output_files[l][TranslationSourcesKey][p]
                          = translation_sources[l][p]

\* One run wrote a file with the block for a locale whose only recorded package
\* has no keys, and a file without the block for a locale with no package
C22_Witness ==
    /\ pc = "merged"
    /\ \E l1, l2 \in DOMAIN output_files :
         /\ HasBlock(l1) /\ ~KeyHasProvenance(l1)
         /\ ~HasBlock(l2) /\ ~PackageRecorded(l2)

(***************************************************************************)
(* Read failures in validate_translations                                  *)
(***************************************************************************)
\* C23: a PO file that cannot be read or parsed never ends validate_translations:
\* its contribution is dropped, the run goes on with the other files and
\* returns their reports
C23_ReadFailureRunContinues == pc # "raised"

(***************************************************************************)
(* Consistency of the totals of a validation summary                       *)
(***************************************************************************)
RECURSIVE SumField(_, _, _)
SumField(d, keys, field) ==
    IF keys = {} THEN 0
    ELSE LET k == CHOOSE x \in keys : TRUE
         IN  d[k][field] + SumField(d, keys \ {k}, field)

RECURSIVE ObsoleteIn(_)
ObsoleteIn(rs) ==
    IF rs = <<>> THEN 0
    ELSE Head(rs).counts.obsoleteTranslations + ObsoleteIn(Tail(rs))

\* The parts of C29 about the issue totals and the locales
TotalsConsistent ==
    /\ summary.total_issues
         = SumField(summary.package_breakdown, DOMAIN summary.package_breakdown,
                    "total_issues")
    /\ summary.total_issues
         = SumField(summary.language_breakdown, DOMAIN summary.language_breakdown,
                    "total_issues")
    /\ summary.total_issues
         = summary.untranslated_strings + summary.fuzzy_translations
           + ObsoleteIn(reports)
    /\ \A p \in DOMAIN summary.package_breakdown :
         LET b == summary.package_breakdown[p]
         IN  b.total_issues = b.untranslated_strings + b.fuzzy_translations
                              + ObsoleteIn(ReportsWith("package", p))
    /\ \A l \in DOMAIN summary.language_breakdown :
         LET b == summary.language_breakdown[l]
         IN  b.total_issues = b.untranslated_strings + b.fuzzy_translations
                              + ObsoleteIn(ReportsWith("locale", l))
    /\ summary.total_locales
         = Cardinality({reports[i].locale : i \in 1..Len(reports)})

\* C29 (as stated): the totals of a summary are mutually consistent, and
\* total_packages is the number of distinct packages that were checked
C29_TotalsDistinctPackages ==
    pc = "summarized" =>
      /\ TotalsConsistent
      /\ summary.total_packages
           = Cardinality({packages[i] : i \in 1..Len(packages)})

\* C29 (amended): the totals of a summary are mutually consistent, and
\* total_packages is the number of package names that were given to be
\* checked, a name given twice counted twice
C29_TotalsNamesGiven ==
    pc = "summarized" =>
      /\ TotalsConsistent
      /\ summary.total_packages = Len(packages)

\* A summary of reports with untranslated, fuzzy and obsolete entries, for a
\* list that names one package twice
C29_Witness ==
    /\ pc = "summarized"
    /\ \E i, j \in 1..Len(packages) : i # j /\ packages[i] = packages[j]
    /\ summary.untranslated_strings > 0
    /\ summary.fuzzy_translations > 0
    /\ ObsoleteIn(reports) > 0
    /\ summary.total_packages = Len(packages)

(***************************************************************************)
(* When merge_js_translations appends a layer name                         *)
(***************************************************************************)
\* The step is a tracked merge_js_translations call that has the key
MergesKey(l, p, k) ==
    /\ last_call'.op = "merge"
    /\ last_call'.locale = l
    /\ p \in DOMAIN last_call'.source
    /\ k \in DOMAIN last_call'.source[p]

\* C24 (as stated): a merge call appends its layer name to a key's list
\* exactly when the name is not the last entry of the list, and sets the
\* key's value to the source layer's value
C24_AppendUnlessLast ==
    [][\A l \in ApiLocales, p \in {ModA, PkgQ} :
         \A k \in KeysOf(translations_by_language', l, p) :
           MergesKey(l, p, k) =>
             LET old == SourcesOf(l, p, k)
                 tag == last_call'.source_type
             IN  /\ translation_sources'[l][p][k]
                      = IF old = <<>> \/ old[Len(old)] # tag
                        THEN Append(old, tag) ELSE old
                 /\ translations_by_language'[l][p][k] = last_call'.source[p][k]]_vars

\* C24 (amended): a merge call appends its layer name to a key's list exactly
\* when the name is nowhere in the list, and sets the key's value to the source
\* layer's value; after bundle, instance, bundle the list is [bundle, instance]
C24_AppendUnlessPresent ==
    [][\A l \in ApiLocales, p \in {ModA, PkgQ} :
         \A k \in KeysOf(translations_by_language', l, p) :
           MergesKey(l, p, k) =>
             LET old == SourcesOf(l, p, k)
                 tag == last_call'.source_type
             IN  /\ translation_sources'[l][p][k]
                      = IF Contains(old, tag) THEN old ELSE Append(old, tag)
                 /\ translations_by_language'[l][p][k] = last_call'.source[p][k]]_vars

\* A key was merged from bundle, then instance, then bundle again
C24_Witness ==
    /\ n_collected = 3
    /\ last_call.op = "merge"
    /\ last_call.source_type = "bundle"
    /\ \E l \in DOMAIN translation_sources :
         \E p \in DOMAIN translation_sources[l] :
           \E k \in DOMAIN translation_sources[l][p] :
             /\ p \in DOMAIN last_call.source
             /\ k \in DOMAIN last_call.source[p]
             /\ translation_sources[l][p][k] = <<"bundle", "instance">>
             /\ translations_by_language[l][p][k] = last_call.source[p][k]

(***************************************************************************)
(* What a failing file leaves behind in the collector                      *)
(***************************************************************************)
\* The step is the collector iteration of a file that polib cannot load
CollectsFailingFile ==
    /\ pc = "collect"
    /\ n_collected' = n_collected + 1
    /\ last_call'.op = "collect"
    /\ ~last_call'.file.readable

\* C28: a (package, locale) file that fails to be read or parsed leaves
\* translations_by_language and translation_sources exactly as they were, so
\* a locale all of whose files fail is a key of neither map
C28_FailedFileLeavesNoTrace ==
    [][CollectsFailingFile =>
         /\ translations_by_language' = translations_by_language
         /\ translation_sources' = translation_sources]_vars

(***************************************************************************)
(* The values the converter emits                                          *)
(***************************************************************************)
\* C30: every value of the converter's result is a non-empty string with no
\* leading or trailing whitespace, also after an entry whose msgstr or plural
\* form consists only of whitespace
C30_ValuesNonEmptyTrimmed ==
    \A k \in DOMAIN result :
      /\ result[k] # <<>>
      /\ ~IsSpace(result[k][1])
      /\ ~IsSpace(result[k][Len(result[k])])

====
